---- MODULE Spec2Model ----
(***************************************************************************)
(* A model of tools/reference_validator.py: the ReferenceValidator class   *)
(* (registry loaders with their caches, the reference extractors, the      *)
(* template scanner, validate_file_references and validate_all).           *)
(*                                                                         *)
(* Python strings are sequences of one-character strings, so that prefix,  *)
(* substring and regular-expression tests are computed, not assumed.       *)
(* Parsed YAML documents are trees of tagged records:                      *)
(*   [t |-> "str", s |-> chars]      a string scalar                       *)
(*   [t |-> "none"]                  None (an empty document)              *)
(*   [t |-> "int"]                   any other scalar                      *)
(*   [t |-> "list", items |-> seq]   a sequence                            *)
(*   [t |-> "dict", entries |-> seq of [key, value]]   a mapping           *)
(***************************************************************************)
EXTENDS Naturals, Sequences, FiniteSets, TLC

VARIABLES
    errors,       \* self.errors: the list of error messages
    warnings,     \* self.warnings: the list of warning messages
    _entities,    \* self._entities: None or the cached entity registry
    _devices,     \* self._devices: None or the cached device registry
    _areas,       \* self._areas: None or the cached area registry
    storage,      \* the three snapshot files under <config_dir>/.storage
    pc,           \* where validate_all stands: "idle", "running", "done"
    remaining,    \* validate_all: files of yaml_files not yet validated
    all_valid,    \* validate_all: its local all_valid
    last,         \* the last call made on the validator, with its result
    calls,        \* the number of direct calls made on the validator
    changes,      \* the number of times the storage was rewritten
    accessed      \* history: per registry, the map its first access returned

vars == <<errors, warnings, _entities, _devices, _areas, storage, pc,
          remaining, all_valid, last, calls, changes, accessed>>

-----------------------------------------------------------------------------
(* Characters and strings *)

Lower == {"a", "b", "c", "d", "e", "f", "g", "h", "i", "j", "k", "l", "m",
          "n", "o", "p", "q", "r", "s", "t", "u", "v", "w", "x", "y", "z"}

Upper == {"A", "B", "C", "D", "E", "F", "G", "H", "I", "J", "K", "L", "M",
          "N", "O", "P", "Q", "R", "S", "T", "U", "V", "W", "X", "Y", "Z"}

Digit == {"0", "1", "2", "3", "4", "5", "6", "7", "8", "9"}

\* [a-f0-9]
HexChars == {"a", "b", "c", "d", "e", "f"} \cup Digit

\* [a-zA-Z_]
IdentStart == Lower \cup Upper \cup {"_"}

\* [a-zA-Z0-9_]
IdentChar == IdentStart \cup Digit

\* The repetition count {32} of uuid_pattern.
UuidLen == 32

\* The string of n characters c.
Rep(c, n) == [i \in 1..n |-> c]

\* The literal lit occurs in s at position pos (1-based).
MatchesAt(s, pos, lit) ==
    /\ pos >= 1
    /\ pos + Len(lit) - 1 <= Len(s)
    /\ \A i \in 1..Len(lit) : s[pos + i - 1] = lit[i]

\* str.startswith
StartsWith(s, prefix) == MatchesAt(s, 1, prefix)

\* Python's "sub in s"
Contains(s, sub) == \E pos \in 1..(Len(s) + 1) : MatchesAt(s, pos, sub)

\* The number of occurrences of the character c in s.
CountChar(s, c) == Cardinality({i \in 1..Len(s) : s[i] = c})

\* is_uuid_format: re.match(r"^[a-f0-9]{32}$", value).  In Python "$" matches
\* at the end of the string and also just before a line break that ends it.
is_uuid_format(value) ==
    /\ Len(value) >= UuidLen
    /\ \A i \in 1..UuidLen : value[i] \in HexChars
    /\ \/ Len(value) = UuidLen
       \/ Len(value) = UuidLen + 1 /\ value[UuidLen + 1] = "\n"

-----------------------------------------------------------------------------
(* Documents *)

DStr(s) == [s |-> s, t |-> "str"]
DNone == [t |-> "none"]
DInt == [t |-> "int"]
DList(items) == [t |-> "list", items |-> items]
DDict(entries) == [t |-> "dict", entries |-> entries]
Entry(key, value) == [value |-> value, key |-> key]

\* The elements of a sequence.
Range(seq) == {seq[i] : i \in 1..Len(seq)}

-----------------------------------------------------------------------------
(* Template scanner: extract_entities_from_template *)

\* One attempt of a pattern  prefix([^q]+)suffix  at position pos, where suffix
\* starts with the quote q: the capture runs up to the next quote.
MatchQuoted(s, pos, prefix, q, suffix) ==
    LET start == pos + Len(prefix)
        quotes == {j \in start..Len(s) : s[j] = q}
        close == IF quotes = {} THEN 0
                 ELSE CHOOSE j \in quotes : \A k \in quotes : j <= k
        ok == /\ MatchesAt(s, pos, prefix)
              /\ close > start
              /\ MatchesAt(s, close, suffix)
    IN  [ok |-> ok,
         capture |-> IF ok THEN SubSeq(s, start, close - 1) ELSE <<>>,
         end |-> close + Len(suffix)]

\* re.findall of a quoted pattern from position pos on: the captures of the
\* leftmost non-overlapping matches.
RECURSIVE FindAllQuoted(_, _, _, _, _)
FindAllQuoted(s, pos, prefix, q, suffix) ==
    IF pos > Len(s) THEN {}
    ELSE LET m == MatchQuoted(s, pos, prefix, q, suffix)
         IN  IF m.ok
             THEN {m.capture} \cup FindAllQuoted(s, m.end, prefix, q, suffix)
             ELSE FindAllQuoted(s, pos + 1, prefix, q, suffix)

\* The last index of the longest run of [a-zA-Z0-9_] that starts at from
\* (from - 1 when s[from] is no such character).
RunEnd(s, from) ==
    LET ends == {from - 1} \cup
                {e \in from..Len(s) : \A i \in from..e : s[i] \in IdentChar}
    IN  CHOOSE e \in ends : \A k \in ends : k <= e

\* One attempt of  states\.([a-zA-Z_][a-zA-Z0-9_]*\.[a-zA-Z_][a-zA-Z0-9_]*)
MatchDotted(s, pos) ==
    LET prefix == <<"s", "t", "a", "t", "e", "s", ".">>
        a == pos + Len(prefix)
        e1 == RunEnd(s, a)
        e2 == RunEnd(s, e1 + 2)
        ok == /\ MatchesAt(s, pos, prefix)
              /\ a <= Len(s) /\ s[a] \in IdentStart
              /\ e1 + 2 <= Len(s) /\ s[e1 + 1] = "." /\ s[e1 + 2] \in IdentStart
    IN  [ok |-> ok,
         capture |-> IF ok THEN SubSeq(s, a, e2) ELSE <<>>,
         end |-> e2 + 1]

RECURSIVE FindAllDotted(_, _)
FindAllDotted(s, pos) ==
    IF pos > Len(s) THEN {}
    ELSE LET m == MatchDotted(s, pos)
         IN  IF m.ok THEN {m.capture} \cup FindAllDotted(s, m.end)
             ELSE FindAllDotted(s, pos + 1)

\* The literal heads of the patterns.
StatesCall == <<"s", "t", "a", "t", "e", "s", "(">>
IsStateCall == <<"i", "s", "_", "s", "t", "a", "t", "e", "(">>
StateAttrCall == <<"s", "t", "a", "t", "e", "_", "a", "t", "t", "r", "(">>
SQ == "'"
DQ == "\""

\* All captures of the seven patterns, before the format check.
TemplateMatches(template) ==
    FindAllQuoted(template, 1, StatesCall \o <<SQ>>, SQ, <<SQ, ")">>)
    \cup FindAllQuoted(template, 1, StatesCall \o <<DQ>>, DQ, <<DQ, ")">>)
    \cup FindAllDotted(template, 1)
    \cup FindAllQuoted(template, 1, IsStateCall \o <<SQ>>, SQ, <<SQ>>)
    \cup FindAllQuoted(template, 1, IsStateCall \o <<DQ>>, DQ, <<DQ>>)
    \cup FindAllQuoted(template, 1, StateAttrCall \o <<SQ>>, SQ, <<SQ>>)
    \cup FindAllQuoted(template, 1, StateAttrCall \o <<DQ>>, DQ, <<DQ>>)

\* "." in match and len(match.split(".")) == 2
ValidEntityFormat(match) == CountChar(match, ".") = 1

extract_entities_from_template(template) ==
    {m \in TemplateMatches(template) : ValidEntityFormat(m)}

\* No string is taken for a template.
HasTemplateMarker_never(value) == FALSE

\* any(x in value for x in ["state_attr(", "states(", "is_state("])
HasTemplateMarker(value) ==
    \/ Contains(value, StateAttrCall)
    \/ Contains(value, StatesCall)
    \/ Contains(value, IsStateCall)

-----------------------------------------------------------------------------
(* Reference extractors *)

EntityKeys == {"entity_id", "entity_ids", "entities"}
DeviceKeys == {"device_id", "device_ids"}
AreaKeys == {"area_id", "area_ids"}

\* The filter without its test of the registry id format.
KeepPlainEntity_tags(value) == ~StartsWith(value, <<"!">>)

\* The filter of lines 176 and 181-184: not a tag, not a registry id.
KeepPlainEntity(value) ==
    ~StartsWith(value, <<"!">>) /\ ~is_uuid_format(value)

\* The string, or the string elements of the list, that pass keep(_):
\* the body shared by lines 174-185, 250-257 and 274-281.
KeyedStrings(value, keep(_)) ==
    IF value.t = "str"
    THEN IF keep(value.s) THEN {value.s} ELSE {}
    ELSE IF value.t = "list"
    THEN {value.items[i].s : i \in {j \in 1..Len(value.items) :
              value.items[j].t = "str" /\ keep(value.items[j].s)}}
    ELSE {}

RECURSIVE extract_entity_references(_)
extract_entity_references(data) ==
    IF data.t = "dict"
    THEN UNION {
        LET key == e.key
            value == e.value
        IN  IF key \in EntityKeys THEN KeyedStrings(value, KeepPlainEntity)
            ELSE IF key \in DeviceKeys THEN {}
            ELSE IF key \in AreaKeys THEN {}
            ELSE IF key = "data" /\ value.t = "dict"
                 THEN extract_entity_references(value)
            ELSE IF value.t = "str" /\ HasTemplateMarker(value.s)
                 THEN extract_entities_from_template(value.s)
            ELSE extract_entity_references(value)
        : e \in Range(data.entries)}
    ELSE IF data.t = "list"
    THEN UNION {extract_entity_references(item) : item \in Range(data.items)}
    ELSE {}

\* not value.startswith("!")
NotTag(value) == ~StartsWith(value, <<"!">>)

RECURSIVE extract_device_references(_)
extract_device_references(data) ==
    IF data.t = "dict"
    THEN UNION {
        IF e.key \in DeviceKeys THEN KeyedStrings(e.value, NotTag)
        ELSE extract_device_references(e.value)
        : e \in Range(data.entries)}
    ELSE IF data.t = "list"
    THEN UNION {extract_device_references(item) : item \in Range(data.items)}
    ELSE {}

RECURSIVE extract_area_references(_)
extract_area_references(data) ==
    IF data.t = "dict"
    THEN UNION {
        IF e.key \in AreaKeys THEN KeyedStrings(e.value, NotTag)
        ELSE extract_area_references(e.value)
        : e \in Range(data.entries)}
    ELSE IF data.t = "list"
    THEN UNION {extract_area_references(item) : item \in Range(data.items)}
    ELSE {}

\* The extractor looking at the entries of the outermost mapping only.
extract_entity_registry_ids_shallow(data) ==
    IF data.t = "dict"
    THEN {e.value.s : e \in {f \in Range(data.entries) :
              f.key = "entity_id" /\ f.value.t = "str"
                  /\ is_uuid_format(f.value.s)}}
    ELSE {}

\* The extractor taking the registry ids under every entity key, in strings
\* and in lists.
RECURSIVE extract_entity_registry_ids_lists(_)
extract_entity_registry_ids_lists(data) ==
    IF data.t = "dict"
    THEN UNION {
        IF e.key \in EntityKeys /\ e.value.t \in {"str", "list"}
        THEN KeyedStrings(e.value, is_uuid_format)
        ELSE extract_entity_registry_ids_lists(e.value)
        : e \in Range(data.entries)}
    ELSE IF data.t = "list"
    THEN UNION {extract_entity_registry_ids_lists(item) :
                    item \in Range(data.items)}
    ELSE {}

RECURSIVE extract_entity_registry_ids(_)
extract_entity_registry_ids(data) ==
    IF data.t = "dict"
    THEN UNION {
        IF e.key = "entity_id" /\ e.value.t = "str"
        THEN IF is_uuid_format(e.value.s) THEN {e.value.s} ELSE {}
        ELSE extract_entity_registry_ids(e.value)
        : e \in Range(data.entries)}
    ELSE IF data.t = "list"
    THEN UNION {extract_entity_registry_ids(item) : item \in Range(data.items)}
    ELSE {}

-----------------------------------------------------------------------------
(* Python values: Optional, and dict as its insertion-ordered list of items *)

None == [is_none |-> TRUE, dict |-> <<>>]
Some(d) == [is_none |-> FALSE, dict |-> d]

DictKeys(d) == {d[i].key : i \in 1..Len(d)}
DictHas(d, k) == k \in DictKeys(d)
DictGet(d, k) == d[CHOOSE i \in 1..Len(d) : d[i].key = k].value

\* d[k] = v: a key already present keeps its place and takes the new value.
DictPut(d, k, v) ==
    IF DictHas(d, k)
    THEN [i \in 1..Len(d) |-> IF d[i].key = k THEN Entry(k, v) ELSE d[i]]
    ELSE Append(d, Entry(k, v))

\* A dict comprehension {key: value for ...} over the items in order.
RECURSIVE BuildDict(_)
BuildDict(items) ==
    IF items = <<>> THEN <<>>
    ELSE DictPut(BuildDict(SubSeq(items, 1, Len(items) - 1)),
                 items[Len(items)].key, items[Len(items)].value)

-----------------------------------------------------------------------------
(* Messages.  An f-string is kept as its kind and the values formatted in. *)

Msg(kind, file, id, entity) ==
    [kind |-> kind, file |-> file, id |-> id, entity |-> entity]

\* A message about a registry or the run, naming no file.
RunMsg(kind) == Msg(kind, "", <<>>, <<>>)

-----------------------------------------------------------------------------
(* Registry loaders.  self is the validator's fields, st the storage. *)

\* errors replaced by the new message alone.
AddError_reset(self, m) == [self EXCEPT !.errors = <<m>>]

AddError(self, m) == [self EXCEPT !.errors = Append(@, m)]
AddWarning(self, m) == [self EXCEPT !.warnings = Append(@, m)]

\* {entity["entity_id"]: entity for entity in ...["entities"]}
EntityDict(records) ==
    BuildDict([i \in 1..Len(records) |->
                   Entry(records[i].entity_id, records[i])])

\* {device["id"]: device ...} and {area["id"]: area ...}
IdDict(records) ==
    BuildDict([i \in 1..Len(records) |-> Entry(records[i].id, records[i])])

load_entity_registry(self, st) ==
    IF ~self._entities.is_none
    THEN [self |-> self, ret |-> self._entities.dict]
    ELSE IF st.entity.state = "missing"
    THEN [self |-> AddError(self, RunMsg("EntityRegistryNotFound")),
          ret |-> <<>>]
    ELSE IF st.entity.state = "malformed"
    THEN [self |-> AddError(self, RunMsg("EntityRegistryLoadFailed")),
          ret |-> <<>>]
    ELSE LET d == EntityDict(st.entity.records)
         IN  [self |-> [self EXCEPT !._entities = Some(d)], ret |-> d]

\* The loader with a failed load left unrecorded.
load_device_registry_silent(self, st) ==
    IF ~self._devices.is_none
    THEN [self |-> self, ret |-> self._devices.dict]
    ELSE IF st.device.state # "ok"
    THEN [self |-> self, ret |-> <<>>]
    ELSE LET d == IdDict(st.device.records)
         IN  [self |-> [self EXCEPT !._devices = Some(d)], ret |-> d]

load_device_registry(self, st) ==
    IF ~self._devices.is_none
    THEN [self |-> self, ret |-> self._devices.dict]
    ELSE IF st.device.state = "missing"
    THEN [self |-> AddError(self, RunMsg("DeviceRegistryNotFound")),
          ret |-> <<>>]
    ELSE IF st.device.state = "malformed"
    THEN [self |-> AddError(self, RunMsg("DeviceRegistryLoadFailed")),
          ret |-> <<>>]
    ELSE LET d == IdDict(st.device.records)
         IN  [self |-> [self EXCEPT !._devices = Some(d)], ret |-> d]

\* The loader with a failed load recorded as an error.
load_area_registry_strict(self, st) ==
    IF ~self._areas.is_none
    THEN [self |-> self, ret |-> self._areas.dict]
    ELSE IF st.area.state = "missing"
    THEN [self |-> AddError(self, RunMsg("AreaRegistryNotFound")),
          ret |-> <<>>]
    ELSE IF st.area.state = "malformed"
    THEN [self |-> AddError(self, RunMsg("AreaRegistryLoadFailed")),
          ret |-> <<>>]
    ELSE LET d == IdDict(st.area.records)
         IN  [self |-> [self EXCEPT !._areas = Some(d)], ret |-> d]

load_area_registry(self, st) ==
    IF ~self._areas.is_none
    THEN [self |-> self, ret |-> self._areas.dict]
    ELSE IF st.area.state = "missing"
    THEN [self |-> AddWarning(self, RunMsg("AreaRegistryNotFound")),
          ret |-> <<>>]
    ELSE IF st.area.state = "malformed"
    THEN [self |-> AddWarning(self, RunMsg("AreaRegistryLoadFailed")),
          ret |-> <<>>]
    ELSE LET d == IdDict(st.area.records)
         IN  [self |-> [self EXCEPT !._areas = Some(d)], ret |-> d]

\* The items with key and value exchanged.
IdItems_swapped(entities) ==
    LET with_id == SelectSeq(entities, LAMBDA e : e.value.has_id)
    IN  [i \in 1..Len(with_id) |->
            Entry(with_id[i].value.entity_id, with_id[i].value.id)]

\* The items of {entity_data["id"]: entity_data["entity_id"] ... if "id" in
\* entity_data}, in the order of entities.values().
IdItems(entities) ==
    LET with_id == SelectSeq(entities, LAMBDA e : e.value.has_id)
    IN  [i \in 1..Len(with_id) |->
            Entry(with_id[i].value.id, with_id[i].value.entity_id)]

get_entity_registry_id_mapping(self, st) ==
    LET r == load_entity_registry(self, st)
    IN  [self |-> r.self, ret |-> BuildDict(IdItems(r.ret))]

-----------------------------------------------------------------------------
(* validate_file_references *)

SecretsName == "secrets.yaml"

\* A file: its name, whether open() and yaml.load succeed, and the document.
File(name, readable, data) ==
    [data |-> data, name |-> name, readable |-> readable]

\* The messages of one loop: one per element of order that passes Test.
LoopMsgs(order, Test(_), Message(_)) ==
    LET hit == SelectSeq(order, Test)
    IN  [i \in 1..Len(hit) |-> Message(hit[i])]

\* The orders in which a for loop may visit a Python set.
Orders(S) ==
    {o \in [1..Cardinality(S) -> S] : \A i, j \in DOMAIN o : o[i] = o[j] => i = j}

\* Lines 355-359: the entity_ids of the records with a disabled_by.
disabled_entities(entities) ==
    {entities[i].value.entity_id : i \in {j \in 1..Len(entities) :
         entities[j].value.disabled_by # "None"}}

\* Lines 350-353: the reference is checked and is no key of the registry.
AbsentEntity(entities, id) ==
    ~is_uuid_format(id) /\ ~DictHas(entities, id)

\* Lines 361-364: the branch that appends "References disabled entity".
DisabledEntity(entities, id) ==
    AbsentEntity(entities, id) /\ id \in disabled_entities(entities)

\* The two branches of lines 361-367 exchanged.
UnknownEntity_swapped(entities, id) ==
    AbsentEntity(entities, id) /\ id \in disabled_entities(entities)

\* Lines 365-367: the branch that appends "Unknown entity".
UnknownEntity(entities, id) ==
    AbsentEntity(entities, id) /\ id \notin disabled_entities(entities)

\* The check of line 371 made against the ids of all strings.
UnknownRegistryId_lenient(entity_id_mapping, id) ==
    ~DictHas(entity_id_mapping, id) /\ ~is_uuid_format(id)

\* Lines 371-375: the branch that appends "Unknown entity registry ID".
UnknownRegistryId(entity_id_mapping, id) == ~DictHas(entity_id_mapping, id)

\* Lines 376-385 with the test of disabled_by inverted.
DisabledRegistryId_inverted(entities, entity_id_mapping, id) ==
    /\ DictHas(entity_id_mapping, id)
    /\ DictHas(entities, DictGet(entity_id_mapping, id))
    /\ DictGet(entities, DictGet(entity_id_mapping, id)).disabled_by = "None"

\* Lines 376-385: the branch that appends "Entity registry ID ... references
\* disabled entity".
DisabledRegistryId(entities, entity_id_mapping, id) ==
    /\ DictHas(entity_id_mapping, id)
    /\ DictHas(entities, DictGet(entity_id_mapping, id))
    /\ DictGet(entities, DictGet(entity_id_mapping, id)).disabled_by # "None"

\* The check of line 388 with disabled devices counted as unknown.
UnknownDevice_strict(devices, id) ==
    \/ ~DictHas(devices, id)
    \/ DictGet(devices, id).disabled_by # "None"

\* Lines 388-391.
UnknownDevice(devices, id) == ~DictHas(devices, id)

\* Lines 394-396.
UnknownArea(areas, id) == ~DictHas(areas, id)

\* The loops of lines 347-396 over the four extracted sets, visited in the
\* orders oe, oi, od, oa, with the registries as loaded: the messages each
\* appends.
ReferenceMessages(name, entities, devices, areas, entity_id_mapping,
                  oe, oi, od, oa) ==
    [entity_errors |->
         LoopMsgs(oe, LAMBDA id : UnknownEntity(entities, id),
                  LAMBDA id : Msg("UnknownEntity", name, id, <<>>)),
     entity_warnings |->
         LoopMsgs(oe, LAMBDA id : DisabledEntity(entities, id),
                  LAMBDA id : Msg("DisabledEntity", name, id, <<>>)),
     registry_errors |->
         LoopMsgs(oi, LAMBDA id : UnknownRegistryId(entity_id_mapping, id),
                  LAMBDA id : Msg("UnknownRegistryId", name, id, <<>>)),
     registry_warnings |->
         LoopMsgs(oi, LAMBDA id : DisabledRegistryId(entities,
                                                     entity_id_mapping, id),
                  LAMBDA id : Msg("DisabledRegistryId", name, id,
                                  DictGet(entity_id_mapping, id))),
     device_errors |->
         LoopMsgs(od, LAMBDA id : UnknownDevice(devices, id),
                  LAMBDA id : Msg("UnknownDevice", name, id, <<>>)),
     area_warnings |->
         LoopMsgs(oa, LAMBDA id : UnknownArea(areas, id),
                  LAMBDA id : Msg("UnknownArea", name, id, <<>>))]

\* all_valid cleared by the area loop as well.
AllValid_areas(m) ==
    /\ m.entity_errors = <<>>
    /\ m.registry_errors = <<>>
    /\ m.device_errors = <<>>
    /\ m.area_warnings = <<>>

\* all_valid at line 398: cleared by each loop that appended an error.
AllValid(m) ==
    /\ m.entity_errors = <<>>
    /\ m.registry_errors = <<>>
    /\ m.device_errors = <<>>

\* The maps a call obtained from the loaders (None: registry not accessed).
Got(entity, device, area) ==
    [entity |-> entity, device |-> device, area |-> area]
NoGot == Got(None, None, None)

\* No file is skipped.
IsSecretsFile_never(file) == FALSE

\* Line 320: the secrets file is skipped.
IsSecretsFile(file) == file.name = SecretsName

validate_file_references(self, st, file, oe, oi, od, oa) ==
    IF IsSecretsFile(file)
    THEN [self |-> self, ret |-> TRUE, got |-> NoGot]
    ELSE IF ~file.readable
    THEN [self |-> AddError(self, Msg("YamlLoadFailed", file.name, <<>>, <<>>)),
          ret |-> FALSE, got |-> NoGot]
    ELSE IF file.data.t = "none"
    THEN [self |-> self, ret |-> TRUE, got |-> NoGot]
    ELSE LET r1 == load_entity_registry(self, st)
             r2 == load_device_registry(r1.self, st)
             r3 == load_area_registry(r2.self, st)
             r4 == get_entity_registry_id_mapping(r3.self, st)
             m == ReferenceMessages(file.name, r1.ret, r2.ret, r3.ret, r4.ret,
                                    oe, oi, od, oa)
             new_errors == m.entity_errors \o m.registry_errors
                               \o m.device_errors
             new_warnings == m.entity_warnings \o m.registry_warnings
                                 \o m.area_warnings
         IN  [self |-> [r4.self EXCEPT !.errors = @ \o new_errors,
                                       !.warnings = @ \o new_warnings],
              ret |-> AllValid(m),
              got |-> Got(Some(r1.ret), Some(r2.ret), Some(r3.ret))]

-----------------------------------------------------------------------------
(* Bounds and inputs *)

\* The most files get_yaml_files returns in a run.
MaxFiles == 2
\* The most direct calls made on one validator outside validate_all.
MaxCalls == 1
\* The most rewrites of the storage during one validator's lifetime.
MaxChanges == 1

\* Registry ids: of an enabled entity, of a disabled entity, of no entity.
U1 == Rep("a", UuidLen)
U2 == Rep("1", UuidLen)
U3 == Rep("f", UuidLen)

\* Entity ids: enabled, disabled, not in any registry.
SA == <<"s", ".", "a">>
SD == <<"s", ".", "d">>
SX == <<"s", ".", "x">>

\* Device and area ids: in the registry, not in the registry.
Dev1 == <<"d", "1">>
\* A device the registry holds as disabled.
Dev2 == <<"d", "2">>
DevX == <<"d", "x">>
Area1 == <<"r", "1">>
AreaX == <<"r", "x">>

EntityRecord(entity_id, has_id, id, disabled_by) ==
    [id |-> id, entity_id |-> entity_id, has_id |-> has_id,
     disabled_by |-> disabled_by]

EA == EntityRecord(SA, TRUE, U1, "None")
ED == EntityRecord(SD, TRUE, U2, "user")

\* A snapshot file of the storage: absent, unparsable, or its records.
Missing == [records |-> <<>>, state |-> "missing"]
Malformed == [records |-> <<>>, state |-> "malformed"]
Snapshot(records) == [records |-> records, state |-> "ok"]

EntityFiles == {Missing, Malformed, Snapshot(<<>>), Snapshot(<<EA, ED>>)}
DeviceFiles == {Missing, Malformed,
                Snapshot(<<[id |-> Dev1, disabled_by |-> "None"],
                           [id |-> Dev2, disabled_by |-> "user"]>>)}
AreaFiles == {Missing, Malformed, Snapshot(<<[id |-> Area1]>>)}

Storages == [entity : EntityFiles, device : DeviceFiles, area : AreaFiles]

\* Documents of a run: without references, with references that all resolve,
\* with references that do not.
DocPlain == DDict(<<Entry("alias", DStr(<<"x">>))>>)
DocKnown ==
    DList(<<DDict(<<Entry("trigger", DDict(<<Entry("entity_id", DStr(U2)),
                                             Entry("device_id", DStr(Dev1))>>)),
                    Entry("target", DDict(<<Entry("entity_id", DStr(SA)),
                                            Entry("area_id", DStr(Area1))>>))
                  >>)>>)
DocUnknown ==
    DList(<<DDict(<<Entry("trigger", DDict(<<Entry("entity_id", DStr(U3)),
                                             Entry("device_id", DStr(DevX))>>)),
                    Entry("target", DDict(<<Entry("entity_id", DStr(SX)),
                                            Entry("area_id", DStr(AreaX))>>))
                  >>)>>)

RunFiles ==
    {File("a.yaml", TRUE, d) : d \in {DNone, DocPlain, DocKnown, DocUnknown}}
    \cup {File("a.yaml", FALSE, DNone)}
    \cup {File(SecretsName, TRUE, DocUnknown), File(SecretsName, FALSE, DNone)}

-----------------------------------------------------------------------------
(* The state machine *)

Self == [errors |-> errors, warnings |-> warnings, _entities |-> _entities,
         _devices |-> _devices, _areas |-> _areas]

\* The validator's fields after a call.
SetSelf(self) ==
    /\ errors' = self.errors
    /\ warnings' = self.warnings
    /\ _entities' = self._entities
    /\ _devices' = self._devices
    /\ _areas' = self._areas

\* The record of a call: what was called, with which argument, what it
\* returned, how long errors and warnings were when it was made, and the maps
\* its loads returned.
Call(op, arg, ret, got) ==
    [ret |-> ret, got |-> got, op |-> op, arg |-> arg,
     errs0 |-> Len(errors), warns0 |-> Len(warnings)]

NoFile == File("", FALSE, DNone)

\* accessed after a call that obtained the maps got.
Remember(got) ==
    accessed' = [reg \in {"entity", "device", "area"} |->
                    IF accessed[reg].is_none THEN got[reg] ELSE accessed[reg]]

\* The orders in which the four loops may visit the references of a file.
RefOrders(file) ==
    IF IsSecretsFile(file) \/ ~file.readable \/ file.data.t = "none"
    THEN {<<<<>>, <<>>, <<>>, <<>>>>}
    ELSE Orders(extract_entity_references(file.data))
         \X Orders(extract_entity_registry_ids(file.data))
         \X Orders(extract_device_references(file.data))
         \X Orders(extract_area_references(file.data))

\* ReferenceValidator(config_dir), lines 83-93.
Fresh ==
    /\ errors = <<>>
    /\ warnings = <<>>
    /\ _entities = None
    /\ _devices = None
    /\ _areas = None
    /\ pc = "idle"
    /\ remaining = 0
    /\ all_valid = TRUE
    /\ last = [ret |-> TRUE, got |-> NoGot, op |-> "init", arg |-> NoFile,
               errs0 |-> 0, warns0 |-> 0]
    /\ calls = 0
    /\ changes = 0
    /\ accessed = NoGot

Init == Fresh /\ storage \in Storages

\* Another process rewrites, creates or removes one snapshot file.
StorageChange ==
    /\ pc \in {"idle", "running"}
    /\ changes < MaxChanges
    /\ \E st \in Storages :
          /\ Cardinality({f \in {"entity", "device", "area"} :
                              st[f] # storage[f]}) = 1
          /\ storage' = st
    /\ changes' = changes + 1
    /\ last' = Call("storage_change", NoFile, TRUE, NoGot)
    /\ UNCHANGED <<errors, warnings, _entities, _devices, _areas, pc,
                   remaining, all_valid, calls, accessed>>

\* A direct call of one of the loaders, r its result.
DirectCall(op, r, got) ==
    /\ pc = "idle"
    /\ calls < MaxCalls
    /\ SetSelf(r.self)
    /\ last' = Call(op, NoFile, TRUE, got)
    /\ Remember(got)
    /\ calls' = calls + 1
    /\ UNCHANGED <<storage, pc, remaining, all_valid, changes>>

LoadEntityRegistry ==
    LET r == load_entity_registry(Self, storage)
    IN  DirectCall("load_entity_registry", r, Got(Some(r.ret), None, None))

LoadDeviceRegistry ==
    LET r == load_device_registry(Self, storage)
    IN  DirectCall("load_device_registry", r, Got(None, Some(r.ret), None))

LoadAreaRegistry ==
    LET r == load_area_registry(Self, storage)
    IN  DirectCall("load_area_registry", r, Got(None, None, Some(r.ret)))

GetEntityRegistryIdMapping ==
    LET r == get_entity_registry_id_mapping(Self, storage)
    IN  DirectCall("get_entity_registry_id_mapping", r,
                   Got(Some(load_entity_registry(Self, storage).ret),
                       None, None))

\* A direct call of validate_file_references.
ValidateFileReferences ==
    /\ pc = "idle"
    /\ calls < MaxCalls
    /\ \E file \in RunFiles : \E o \in RefOrders(file) :
          LET r == validate_file_references(Self, storage, file,
                                            o[1], o[2], o[3], o[4])
          IN  /\ SetSelf(r.self)
              /\ last' = Call("validate_file_references", file, r.ret, r.got)
              /\ Remember(r.got)
    /\ calls' = calls + 1
    /\ UNCHANGED <<storage, pc, remaining, all_valid, changes>>

\* What validate_all finds: whether config_dir exists, and how many files
\* get_yaml_files returns.
Dir(exists, n) == [n |-> n, exists |-> exists]

\* validate_all without the check of line 416.
validate_all_start_unchecked(dir) ==
    IF dir.n = 0
    THEN /\ SetSelf(AddWarning(Self, RunMsg("NoYamlFiles")))
         /\ pc' = "done"
         /\ all_valid' = TRUE
         /\ remaining' = 0
         /\ last' = Call("validate_all", dir, TRUE, NoGot)
    ELSE /\ SetSelf(Self)
         /\ pc' = "running"
         /\ all_valid' = TRUE
         /\ remaining' = dir.n
         /\ last' = Call("validate_all_start", dir, TRUE, NoGot)

\* validate_all up to its loop, lines 416-425, on the directory dir.
validate_all_start(dir) ==
    IF ~dir.exists
    THEN /\ SetSelf(AddError(Self, RunMsg("ConfigDirMissing")))
         /\ pc' = "done"
         /\ all_valid' = FALSE
         /\ remaining' = 0
         /\ last' = Call("validate_all", dir, FALSE, NoGot)
    ELSE IF dir.n = 0
    THEN /\ SetSelf(AddWarning(Self, RunMsg("NoYamlFiles")))
         /\ pc' = "done"
         /\ all_valid' = TRUE
         /\ remaining' = 0
         /\ last' = Call("validate_all", dir, TRUE, NoGot)
    ELSE /\ SetSelf(Self)
         /\ pc' = "running"
         /\ all_valid' = TRUE
         /\ remaining' = dir.n
         /\ last' = Call("validate_all_start", dir, TRUE, NoGot)

\* main() calls validate_all on the validator it has just made.
ValidateAllStart ==
    /\ pc = "idle"
    /\ calls = 0
    /\ \E exists \in BOOLEAN : \E n \in 0..MaxFiles :
          validate_all_start(Dir(exists, n))
    /\ UNCHANGED <<storage, calls, changes, accessed>>

\* One turn of the loop of lines 427-429, on the file read at that turn.
\* The loop with a break after the first invalid file.
validate_all_file_break(file, r) ==
    /\ SetSelf(r.self)
    /\ all_valid' = (all_valid /\ r.ret)
    /\ remaining' = IF r.ret THEN remaining - 1 ELSE 0
    /\ pc' = "running"
    /\ last' = Call("validate_file_references", file, r.ret, r.got)
    /\ Remember(r.got)

\* The loop putting the messages of each file before those of the files
\* validated earlier.
validate_all_file_front(file, r) ==
    /\ SetSelf([r.self EXCEPT
           !.errors = SubSeq(r.self.errors, Len(errors) + 1,
                             Len(r.self.errors)) \o errors,
           !.warnings = SubSeq(r.self.warnings, Len(warnings) + 1,
                               Len(r.self.warnings)) \o warnings])
    /\ all_valid' = (all_valid /\ r.ret)
    /\ remaining' = remaining - 1
    /\ pc' = "running"
    /\ last' = Call("validate_file_references", file, r.ret, r.got)
    /\ Remember(r.got)

validate_all_file(file, r) ==
    /\ SetSelf(r.self)
    /\ all_valid' = (all_valid /\ r.ret)
    /\ remaining' = remaining - 1
    /\ pc' = "running"
    /\ last' = Call("validate_file_references", file, r.ret, r.got)
    /\ Remember(r.got)

ValidateAllFile ==
    /\ pc = "running"
    /\ remaining > 0
    /\ \E file \in RunFiles : \E o \in RefOrders(file) :
          validate_all_file(file,
              validate_file_references(Self, storage, file,
                                       o[1], o[2], o[3], o[4]))
    /\ UNCHANGED <<storage, calls, changes>>

\* return all_valid, line 431.
ValidateAllReturn ==
    /\ pc = "running"
    /\ remaining = 0
    /\ pc' = "done"
    /\ last' = Call("validate_all", Dir(TRUE, 0), all_valid, NoGot)
    /\ UNCHANGED <<errors, warnings, _entities, _devices, _areas, storage,
                   remaining, all_valid, calls, changes, accessed>>

\* print_results, lines 460-494: its one effect on the validator is the
\* load_entity_registry of get_entity_summary (line 435).
PrintResults ==
    /\ pc = "done"
    /\ LET r == load_entity_registry(Self, storage)
       IN  /\ SetSelf(r.self)
           /\ last' = Call("print_results", NoFile, TRUE,
                           Got(Some(r.ret), None, None))
           /\ Remember(Got(Some(r.ret), None, None))
    /\ pc' = "exit"
    /\ UNCHANGED <<storage, remaining, all_valid, calls, changes>>

Next ==
    \/ StorageChange
    \/ LoadEntityRegistry
    \/ LoadDeviceRegistry
    \/ LoadAreaRegistry
    \/ GetEntityRegistryIdMapping
    \/ ValidateFileReferences
    \/ ValidateAllStart
    \/ ValidateAllFile
    \/ ValidateAllReturn
    \/ PrintResults

Spec == Init /\ [][Next]_vars

-----------------------------------------------------------------------------
(* One call of validate_file_references on a fresh validator, over a wider  *)
(* set of documents and registries.                                        *)

\* The most reference entries in a document.
MaxRefs == 2

\* A record that shares its entity_id with EA and its id with ED.
EC == EntityRecord(SA, TRUE, U2, "user")
\* A record without an id field.
EN == EntityRecord(SX, FALSE, <<>>, "None")
\* An enabled record that shares its id with ED and EC.
EM == EntityRecord(SX, TRUE, U2, "None")

All == <<"a", "l", "l">>
\* {{states('s.t')}}
Tmpl == <<"{", "{">> \o StatesCall \o <<SQ, "s", ".", "t", SQ, ")", "}", "}">>

\* The entries a document is made of: a key with a reference, or no reference.
RefEntries ==
    <<Entry("entity_id", DStr(SA)), Entry("entity_id", DStr(SD)),
      Entry("entity_id", DStr(SX)), Entry("entity_id", DStr(U1)),
      Entry("entity_id", DStr(U2)), Entry("entity_id", DStr(U3)),
      Entry("entity_ids", DList(<<DStr(All), DStr(Tmpl), DStr(SA)>>)),
      Entry("device_id", DStr(Dev1)), Entry("device_id", DStr(Dev2)),
      Entry("device_id", DStr(DevX)),
      Entry("area_id", DStr(Area1)), Entry("area_id", DStr(AreaX)),
      Entry("alias", DStr(<<"x">>))>>

\* The sequences over S of length at most n.
SeqsUpTo(S, n) == UNION {[1..k -> S] : k \in 0..n}

\* The choices of at most n entries of RefEntries, each choice listed once
\* (the order of the mappings of a document changes no extracted set).
RefChoices(n) ==
    {c \in SeqsUpTo(1..Len(RefEntries), n) :
        \A i \in 1..(Len(c) - 1) : c[i] <= c[i + 1]}

\* An automation-like document: a list of mappings of one entry each.
RefDocs ==
    {DDict(<<Entry("triggers",
                   DList([i \in 1..Len(c) |-> DDict(<<RefEntries[c[i]]>>)]))>>)
        : c \in RefChoices(MaxRefs)}

FileStorages ==
    [entity : EntityFiles \cup {Snapshot(<<EA, EC, EN>>), Snapshot(<<EC, EM>>)},
     device : DeviceFiles, area : AreaFiles]

InitFile == Fresh /\ storage \in FileStorages

ValidateOneFile ==
    /\ pc = "idle"
    /\ calls = 0
    /\ \E data \in RefDocs :
          LET file == File("a.yaml", TRUE, data)
          IN  \E o \in RefOrders(file) :
                LET r == validate_file_references(Self, storage, file,
                                                  o[1], o[2], o[3], o[4])
                IN  /\ SetSelf(r.self)
                    /\ last' = Call("validate_file_references", file, r.ret,
                                    r.got)
                    /\ Remember(r.got)
    /\ calls' = 1
    /\ UNCHANGED <<storage, pc, remaining, all_valid, changes>>

NextFile == ValidateOneFile

SpecFile == InitFile /\ [][NextFile]_vars

-----------------------------------------------------------------------------
(* One call of a function that reads no file of the configuration: the     *)
(* format test, the four extractors, the registry id mapping.              *)

\* The deepest nesting of mappings and sequences in a document.
MaxDepth == 2

\* s with the character c in the place of its character at pos.
Put(s, pos, c) == [s EXCEPT ![pos] = c]

\* 8-4-4-4-12
Hyphenated ==
    Rep("a", 8) \o <<"-">> \o Rep("a", 4) \o <<"-">> \o Rep("a", 4)
        \o <<"-">> \o Rep("a", 4) \o <<"-">> \o Rep("a", 12)

\* Strings around the format: one character short, exact, one character
\* long, with one character of each class at the start, inside and at the end.
UuidInputs ==
    UNION {{Put(Rep("a", n), pos, c) :
                pos \in {1, 16, n},
                c \in {"a", "f", "0", "9", "g", "A", "F", "-", ".", " ", "\n"}}
           : n \in (UuidLen - 1)..(UuidLen + 1)}
    \cup {<<>>, Hyphenated, SA}

\* !i, a tag placeholder
Tag == <<"!", "i">>
\* states('s.a') and states('aaaa...')
TmplSA == StatesCall \o <<SQ>> \o SA \o <<SQ, ")">>
TmplU1 == StatesCall \o <<SQ>> \o U1 \o <<SQ, ")">>

\* The scalars of a document.
Leaves ==
    {DStr(s) : s \in {SA, U1, U1 \o <<"\n">>, Tag, TmplSA, TmplU1}} \cup {DInt}

\* The keys of a document: the reference keys, "data", and any other key.
UnitKeys == {"entity_id", "entity_ids", "device_id", "area_id", "data", "x"}

\* The documents nested at most d deep.
RECURSIVE Docs(_)
Docs(d) ==
    IF d = 0 THEN Leaves
    ELSE Leaves
         \cup {DList(<<v, w>>) : v \in Leaves, w \in Leaves}
         \cup {DList(<<v>>) : v \in Docs(d - 1)}
         \cup {DDict(<<Entry(k, v)>>) : k \in UnitKeys, v \in Docs(d - 1)}

\* The documents of Docs, and the lists of two one-entry mappings.
UnitDocs ==
    Docs(MaxDepth)
    \cup {DList(<<DDict(<<Entry(k, v)>>), DDict(<<Entry(l, w)>>)>>) :
             k \in UnitKeys, v \in Leaves, l \in UnitKeys, w \in Leaves}

InitUnit ==
    /\ Fresh
    /\ storage \in {st \in FileStorages :
                        st.device = Missing /\ st.area = Missing}

\* A call that leaves the validator as it is and returns ret.
UnitCall(op, arg, ret) ==
    /\ pc = "idle"
    /\ calls = 0
    /\ last' = Call(op, arg, ret, NoGot)
    /\ calls' = 1
    /\ UNCHANGED <<errors, warnings, _entities, _devices, _areas, storage,
                   pc, remaining, all_valid, changes, accessed>>

\* is_uuid_format(value)
IsUuidFormat ==
    \E value \in UuidInputs :
        UnitCall("is_uuid_format", File("", TRUE, DStr(value)),
                 is_uuid_format(value))

\* The four extractions of lines 334-337 on a parsed document.
ExtractReferences ==
    \E data \in UnitDocs :
        UnitCall("extract_references", File("", TRUE, data),
                 [entity_refs |-> extract_entity_references(data),
                  device_refs |-> extract_device_references(data),
                  area_refs |-> extract_area_references(data),
                  entity_registry_ids |-> extract_entity_registry_ids(data)])

\* get_entity_registry_id_mapping() on a validator just made.
GetMapping ==
    /\ pc = "idle"
    /\ calls = 0
    /\ LET r == get_entity_registry_id_mapping(Self, storage)
       IN  /\ SetSelf(r.self)
           /\ last' = Call("get_entity_registry_id_mapping", NoFile, r.ret,
                           Got(r.self._entities, None, None))
    /\ calls' = 1
    /\ UNCHANGED <<storage, pc, remaining, all_valid, changes, accessed>>

\* What a template may hold between the quotes of a call: an entity id, and
\* strings that are none ("s.", ".a", "s", "s.a.b").
Captures ==
    {SA, <<"s", ".">>, <<".", "a">>, <<"s">>, <<"s", ".", "a", ".", "b">>}

\* Each capture inside each of the seven forms the scanner looks for.
UnitTemplates ==
    UNION {{StatesCall \o <<SQ>> \o c \o <<SQ, ")">>,
            StatesCall \o <<DQ>> \o c \o <<DQ, ")">>,
            <<"s", "t", "a", "t", "e", "s", ".">> \o c,
            IsStateCall \o <<SQ>> \o c \o <<SQ, ",">>,
            IsStateCall \o <<DQ>> \o c \o <<DQ, ",">>,
            StateAttrCall \o <<SQ>> \o c \o <<SQ, ",">>,
            StateAttrCall \o <<DQ>> \o c \o <<DQ, ",">>} : c \in Captures}

\* extract_entities_from_template(template)
ExtractEntitiesFromTemplate ==
    \E template \in UnitTemplates :
        UnitCall("extract_entities_from_template",
                 File("", TRUE, DStr(template)),
                 extract_entities_from_template(template))

NextUnit ==
    \/ IsUuidFormat
    \/ ExtractReferences
    \/ GetMapping
    \/ ExtractEntitiesFromTemplate

SpecUnit == InitUnit /\ [][NextUnit]_vars

-----------------------------------------------------------------------------
(* Properties *)

\* The messages the last call appended.
ErrorsAdded == SubSeq(errors, last.errs0 + 1, Len(errors))
WarningsAdded == SubSeq(warnings, last.warns0 + 1, Len(warnings))

\* The last call was validate_file_references.
FileCall == last.op = "validate_file_references"

\* The last call was validate_file_references and went past line 331: the
\* file is not the secrets file, was parsed, and is not empty.
Inspected ==
    /\ FileCall
    /\ last.arg.name # "secrets.yaml"
    /\ last.arg.readable
    /\ last.arg.data.t # "none"

\* The messages of seq that are of kind kind and about id.
About(seq, kind, id) ==
    SelectSeq(seq, LAMBDA m : m.kind = kind /\ m.id = id)

\* The classifier of the specification, section 4.1.
IsTagPlaceholder(s) == Len(s) >= 1 /\ s[1] = "!"
IsTemplate(s) ==
    \E i, j \in 1..Len(s) :
        /\ j >= i + 2
        /\ j + 1 <= Len(s)
        /\ s[i] = "{" /\ s[i + 1] = "{"
        /\ s[j] = "}" /\ s[j + 1] = "}"
IsSpecialKeyword(s) == s = <<"a", "l", "l">> \/ s = <<"n", "o", "n", "e">>

\* The ids of the records of a loaded entity registry that carry an id.
IndexKeys(entities) ==
    {entities[i].value.id : i \in {j \in 1..Len(entities) :
                                       entities[j].value.has_id}}

\* The errors that record a registry snapshot that could not be loaded.
LoadFailureKinds ==
    {"EntityRegistryNotFound", "EntityRegistryLoadFailed",
     "DeviceRegistryNotFound", "DeviceRegistryLoadFailed"}

\* C1 (as claimed): a call of validate_file_references returns True if and
\* only if it appended no entry to errors.
C1_VerdictIffNoErrorAppended ==
    FileCall => (last.ret <=> ErrorsAdded = <<>>)

\* C2 (as claimed): validate_all returns True if and only if the errors list
\* is empty when it finishes.
C2_ResultIffNoErrors ==
    last.op = "validate_all" => (last.ret <=> errors = <<>>)

\* C3 (as claimed): every access of a registry returns the map its first
\* access returned, whatever happened to the storage in between.
C3_LaterAccessSameMap ==
    \A reg \in {"entity", "device", "area"} :
        ~last.got[reg].is_none => last.got[reg] = accessed[reg]

\* C4 (as claimed): extract_entity_references never returns a tag
\* placeholder, a template, a registry id or a special keyword.
C4_NoSkippedValueExtracted ==
    FileCall =>
        \A s \in extract_entity_references(last.arg.data) :
            /\ ~IsTagPlaceholder(s)
            /\ ~IsTemplate(s)
            /\ ~is_uuid_format(s)
            /\ ~IsSpecialKeyword(s)

\* C5: validate_file_references on a file named secrets.yaml returns True and
\* leaves errors, warnings and the three caches as they were, whatever the
\* file holds and whatever the storage.
C5_SecretsFileSkipped ==
    [][(last'.op = "validate_file_references"
            /\ last'.arg.name = "secrets.yaml")
        => /\ last'.ret = TRUE
           /\ errors' = errors
           /\ warnings' = warnings
           /\ _entities' = _entities
           /\ _devices' = _devices
           /\ _areas' = _areas]_vars

\* C5 witness: inside a run that already recorded errors, an unparsable
\* secrets.yaml was validated while the entity registry is missing.
C5_Witness ==
    /\ FileCall
    /\ last.arg.name = "secrets.yaml"
    /\ ~last.arg.readable
    /\ pc = "running"
    /\ Len(errors) > 0
    /\ storage.entity.state = "missing"

\* C6: in validate_all a file that cannot be read or parsed appends exactly
\* one error naming it, is invalid and makes the run's result False, and the
\* loop goes on: the count of files left drops by one at each file validated,
\* and validate_all returns only when none is left.
C6_ParseFailureDoesNotStopRun ==
    /\ [][(pc = "running" /\ last'.op = "validate_file_references"
                /\ last'.arg.name # "secrets.yaml" /\ ~last'.arg.readable)
            => /\ errors' = Append(errors, Msg("YamlLoadFailed",
                                              last'.arg.name, <<>>, <<>>))
               /\ last'.ret = FALSE
               /\ all_valid' = FALSE
               /\ pc' = "running"
               /\ remaining' = remaining - 1]_vars
    /\ [][pc = "running"
            => /\ (~all_valid => ~all_valid')
               /\ (pc' # "running" =>
                      remaining = 0 /\ last'.op = "validate_all"
                          /\ last'.ret = all_valid)]_vars

\* C6 witness: the first file of a run failed to parse and a later file with
\* references was validated after it.
C6_Witness ==
    /\ pc = "running"
    /\ Len(errors) >= 1
    /\ errors[1].kind = "YamlLoadFailed"
    /\ last.errs0 >= 1
    /\ Inspected

\* C7: when the configuration directory does not exist validate_all returns
\* False at once with exactly one error, no file validated and no registry
\* loaded; otherwise every enumerated file is validated before it returns.
C7_MissingDirectoryAborts ==
    /\ [][(pc = "idle" /\ last'.op \in {"validate_all", "validate_all_start"})
            => IF ~last'.arg.exists
               THEN /\ last'.op = "validate_all"
                    /\ last'.ret = FALSE
                    /\ pc' = "done"
                    /\ errors' = Append(errors, RunMsg("ConfigDirMissing"))
                    /\ warnings' = warnings
                    /\ _entities' = None /\ _devices' = None /\ _areas' = None
                    /\ accessed' = NoGot
               ELSE /\ remaining' = last'.arg.n
                    /\ (last'.arg.n > 0 => pc' = "running")]_vars
    /\ [][pc = "running"
            => /\ remaining' \in {remaining, remaining - 1}
               /\ (remaining' # remaining
                      => last'.op = "validate_file_references")
               /\ (pc' # "running" => remaining = 0)]_vars

\* C7 witness: validate_all has returned for a missing directory.
C7_Witness ==
    /\ pc = "done"
    /\ last.op = "validate_all"
    /\ ~last.ret
    /\ errors = <<RunMsg("ConfigDirMissing")>>

\* The last call inspected a file whose only reference is the registry id id,
\* which no record of the loaded entity registry carries.
OnlyUnknownRegistryId(id) ==
    /\ Inspected
    /\ extract_entity_registry_ids(last.arg.data) = {id}
    /\ extract_entity_references(last.arg.data) = {}
    /\ extract_device_references(last.arg.data) = {}
    /\ extract_area_references(last.arg.data) = {}
    /\ id \notin IndexKeys(last.got.entity.dict)

\* C8 (as claimed): such a call appends exactly one error, the "Unknown entity
\* registry ID" of that id, and returns False.
C8_ExactlyOneError ==
    \A id \in {U1, U2, U3} :
        OnlyUnknownRegistryId(id) =>
            /\ ErrorsAdded = <<Msg("UnknownRegistryId", last.arg.name, id, <<>>)>>
            /\ last.ret = FALSE

\* C8 (amended): such a call returns False and appends exactly one error
\* about a reference, the "Unknown entity registry ID" of that id; every
\* other error it appends records a registry snapshot that failed to load, and
\* there is none when the entity and device registries load.
C8_OneReferenceError ==
    \A id \in {U1, U2, U3} :
        OnlyUnknownRegistryId(id) =>
            /\ last.ret = FALSE
            /\ SelectSeq(ErrorsAdded, LAMBDA m : m.kind \notin LoadFailureKinds)
                   = <<Msg("UnknownRegistryId", last.arg.name, id, <<>>)>>
            /\ (~_entities.is_none /\ ~_devices.is_none => Len(ErrorsAdded) = 1)

\* C8 witness: with a loaded, non-empty entity registry, a file whose only
\* reference is an unknown registry id was validated.
C8_Witness ==
    /\ OnlyUnknownRegistryId(U3)
    /\ ~_entities.is_none
    /\ Len(_entities.dict) > 0

\* C9: a registry id of the file that the loaded registry knows gets no
\* error; it gets one "disabled entity" warning when the records carrying it
\* are disabled and no warning when they are enabled; a file whose references
\* are all such ids is valid.
C9_DisabledRegistryIdWarns ==
    Inspected =>
        LET E == last.got.entity.dict
            ids == extract_entity_registry_ids(last.arg.data)
            Carriers(id) == {E[i].value : i \in {j \in 1..Len(E) :
                                E[j].value.has_id /\ E[j].value.id = id}}
        IN  /\ \A id \in ids \cap IndexKeys(E) :
                /\ About(ErrorsAdded, "UnknownRegistryId", id) = <<>>
                /\ About(ErrorsAdded, "UnknownEntity", id) = <<>>
                /\ (\A c \in Carriers(id) : c.disabled_by # "None")
                       => /\ Len(About(WarningsAdded, "DisabledRegistryId", id)) = 1
                          /\ About(WarningsAdded, "DisabledRegistryId", id)[1].entity
                                 \in {c.entity_id : c \in Carriers(id)}
                /\ (\A c \in Carriers(id) : c.disabled_by = "None")
                       => About(WarningsAdded, "DisabledRegistryId", id) = <<>>
            /\ (/\ ids \subseteq IndexKeys(E)
                /\ extract_entity_references(last.arg.data) = {}
                /\ extract_device_references(last.arg.data) = {})
                   => last.ret = TRUE

\* C9 witness: a file whose references are the id of a disabled entity and
\* the id of an enabled one was validated, found valid, with a warning.
C9_Witness ==
    /\ Inspected
    /\ extract_entity_registry_ids(last.arg.data) = {U1, U2}
    /\ IndexKeys(last.got.entity.dict) = {U1, U2}
    /\ last.ret = TRUE
    /\ Len(WarningsAdded) = 1
    /\ ErrorsAdded = <<>>

\* C10: every plain entity identifier of the file that is no key of the
\* loaded entity registry gets the error "Unknown entity" and makes the file
\* invalid; one that is a key gets no error.
C10_UnknownEntityIsError ==
    Inspected =>
        \A id \in extract_entity_references(last.arg.data) :
            IF id \in DictKeys(last.got.entity.dict)
            THEN \A i \in 1..Len(ErrorsAdded) : ErrorsAdded[i].id # id
            ELSE /\ About(ErrorsAdded, "UnknownEntity", id)
                       = <<Msg("UnknownEntity", last.arg.name, id, <<>>)>>
                 /\ last.ret = FALSE

\* C10 witness: a file naming a known and an unknown entity was validated
\* against a loaded registry.
C10_Witness ==
    /\ Inspected
    /\ extract_entity_references(last.arg.data) = {SA, SX}
    /\ DictKeys(last.got.entity.dict) = {SA, SD}
    /\ Len(ErrorsAdded) = 1

\* C11 (as claimed): a plain entity identifier of the file for which the
\* loaded registry holds a record with that entity_id and a disabled_by gets
\* the warning "References disabled entity" and no error.
C11_DisabledEntityWarns ==
    Inspected =>
        LET E == last.got.entity.dict
        IN  \A id \in extract_entity_references(last.arg.data) :
                (\E i \in 1..Len(E) : /\ E[i].value.entity_id = id
                                      /\ E[i].value.disabled_by # "None")
                    => /\ About(WarningsAdded, "DisabledEntity", id)
                              = <<Msg("DisabledEntity", last.arg.name, id, <<>>)>>
                       /\ \A i \in 1..Len(ErrorsAdded) : ErrorsAdded[i].id # id

\* C12: every device identifier of the file that is no key of the loaded
\* device registry gets one error "Unknown device" and makes the file invalid;
\* one that is a key, enabled or disabled, gets no message at all.
C12_UnknownDeviceIsError ==
    Inspected =>
        \A id \in extract_device_references(last.arg.data) :
            IF id \in DictKeys(last.got.device.dict)
            THEN /\ \A i \in 1..Len(ErrorsAdded) : ErrorsAdded[i].id # id
                 /\ \A i \in 1..Len(WarningsAdded) : WarningsAdded[i].id # id
            ELSE /\ About(ErrorsAdded, "UnknownDevice", id)
                       = <<Msg("UnknownDevice", last.arg.name, id, <<>>)>>
                 /\ last.ret = FALSE

\* C12 witness: a file naming a disabled device and an unknown one was
\* validated against a loaded device registry.
C12_Witness ==
    /\ Inspected
    /\ extract_device_references(last.arg.data) = {Dev2, DevX}
    /\ DictKeys(last.got.device.dict) = {Dev1, Dev2}
    /\ ~last.ret
    /\ Len(ErrorsAdded) = 1

\* The document data with v in the place of every string stored under an
\* area key.
RECURSIVE WithAreas(_, _)
WithAreas(data, v) ==
    IF data.t = "dict"
    THEN DDict([i \in 1..Len(data.entries) |->
                   LET e == data.entries[i]
                   IN  IF e.key \in AreaKeys /\ e.value.t = "str"
                       THEN Entry(e.key, v)
                       ELSE Entry(e.key, WithAreas(e.value, v))])
    ELSE IF data.t = "list"
    THEN DList([i \in 1..Len(data.items) |-> WithAreas(data.items[i], v)])
    ELSE data

\* The fields of a validator just made, lines 83-93.
FreshSelf == [errors |-> <<>>, warnings |-> <<>>, _entities |-> None,
              _devices |-> None, _areas |-> None]

\* C13: a call of validate_file_references that inspects a file appends, for
\* each area identifier that is no key of the loaded area registry, one
\* warning "Unknown area" and no error; and it returns what the same call
\* returns on the file with its area identifiers taken out and no area
\* registry at all, so that two calls that differ only in the area registry
\* and the area identifiers return the same value.
C13_AreasNeverInvalidate ==
    Inspected =>
        /\ \A id \in extract_area_references(last.arg.data) :
             /\ \A i \in 1..Len(ErrorsAdded) : ErrorsAdded[i].id # id
             /\ About(WarningsAdded, "UnknownArea", id) =
                    IF id \in DictKeys(last.got.area.dict) THEN <<>>
                    ELSE <<Msg("UnknownArea", last.arg.name, id, <<>>)>>
        /\ LET file == File(last.arg.name, TRUE, WithAreas(last.arg.data, DInt))
           IN  \A o \in RefOrders(file) :
                   validate_file_references(
                       FreshSelf, [storage EXCEPT !.area = Missing], file,
                       o[1], o[2], o[3], o[4]).ret = last.ret

\* C13 witness: a file whose one reference is an area the loaded area
\* registry does not hold was validated and found valid, with the warning.
C13_Witness ==
    /\ Inspected
    /\ extract_area_references(last.arg.data) = {AreaX}
    /\ DictKeys(last.got.area.dict) = {Area1}
    /\ last.ret = TRUE
    /\ About(WarningsAdded, "UnknownArea", AreaX) # <<>>

\* C14: no value is both in the set extract_entity_references returns and in
\* the set extract_entity_registry_ids returns for the same document.
C14_ReferenceSetsDisjoint ==
    last.op = "extract_references" =>
        last.ret.entity_refs \cap last.ret.entity_registry_ids = {}

\* C14 witness: a document with a registry id under entity_id and a template
\* naming an entity was scanned, and both sets came out non-empty.
C14_Witness ==
    /\ last.op = "extract_references"
    /\ last.arg.data =
           DList(<<DDict(<<Entry("entity_id", DStr(U1))>>),
                   DDict(<<Entry("x", DStr(TmplSA))>>)>>)
    /\ last.ret.entity_refs = {SA}
    /\ last.ret.entity_registry_ids = {U1}

\* The records of the snapshot read by the call that carry an id field.
SnapshotIdRecords ==
    {storage.entity.records[i] : i \in {j \in 1..Len(storage.entity.records) :
         storage.entity.records[j].has_id}}

\* C15 (as claimed): the mapping has an entry id -> entity_id for every record
\* of the snapshot that carries an id, and no other key.
C15_InverseOfSnapshot ==
    (last.op = "get_entity_registry_id_mapping" /\ storage.entity.state = "ok")
        => /\ DictKeys(last.ret) = {r.id : r \in SnapshotIdRecords}
           /\ \A r \in SnapshotIdRecords : DictGet(last.ret, r.id) = r.entity_id

\* C15 (amended): every entry of the mapping is id -> entity_id of a record of
\* the snapshot that carries an id; the mapping is the inverse of the records
\* kept in the loaded map (one per entity_id) that carry an id, the last of
\* them winning a shared id; and it has an entry for every record of the
\* snapshot that carries an id when no two records share an entity_id or an
\* id.
C15_InverseOfKeptRecords ==
    (last.op = "get_entity_registry_id_mapping" /\ storage.entity.state = "ok")
        => LET E == last.got.entity.dict
               Kept == {i \in 1..Len(E) : E[i].value.has_id}
               Distinct ==
                   \A i, j \in 1..Len(storage.entity.records) :
                       LET r == storage.entity.records[i]
                           q == storage.entity.records[j]
                       IN  i # j => /\ r.entity_id # q.entity_id
                                    /\ (r.has_id /\ q.has_id => r.id # q.id)
           IN  /\ \A k \in 1..Len(last.ret) :
                     \E r \in SnapshotIdRecords :
                         /\ r.id = last.ret[k].key
                         /\ r.entity_id = last.ret[k].value
               /\ DictKeys(last.ret) = {E[i].value.id : i \in Kept}
               /\ \A i \in Kept :
                     (\A j \in Kept : j > i => E[j].value.id # E[i].value.id)
                         => DictGet(last.ret, E[i].value.id)
                                = E[i].value.entity_id
               /\ Distinct =>
                     /\ DictKeys(last.ret) = {r.id : r \in SnapshotIdRecords}
                     /\ \A r \in SnapshotIdRecords :
                           DictGet(last.ret, r.id) = r.entity_id

\* C15 witness: the mapping of a snapshot of two records with distinct ids was
\* computed.
C15_Witness ==
    /\ last.op = "get_entity_registry_id_mapping"
    /\ storage.entity = Snapshot(<<EA, ED>>)
    /\ DictKeys(last.ret) = {U1, U2}

\* C16 (as claimed): is_uuid_format is True exactly for the strings of 32
\* characters, each of [0-9a-f].
C16_ExactlyThirtyTwoHex ==
    last.op = "is_uuid_format" =>
        (last.ret <=> /\ Len(last.arg.data.s) = UuidLen
                      /\ \A i \in 1..Len(last.arg.data.s) :
                             last.arg.data.s[i] \in HexChars)

\* The document data and every document nested in it.
RECURSIVE Nodes(_)
Nodes(data) ==
    {data} \cup
        IF data.t = "dict"
        THEN UNION {Nodes(e.value) : e \in Range(data.entries)}
        ELSE IF data.t = "list"
        THEN UNION {Nodes(item) : item \in Range(data.items)}
        ELSE {}

\* C17: extract_entity_registry_ids returns the strings stored under a key
\* entity_id of a mapping anywhere in the document that pass is_uuid_format,
\* and nothing else.
C17_RegistryIdsExactly ==
    last.op = "extract_references" =>
        last.ret.entity_registry_ids =
            UNION {{e.value.s : e \in {f \in Range(n.entries) :
                        /\ f.key = "entity_id"
                        /\ f.value.t = "str"
                        /\ is_uuid_format(f.value.s)}}
                   : n \in {m \in Nodes(last.arg.data) : m.t = "dict"}}

\* C17 witness: an id stored under entity_id inside the mapping stored under
\* another entity_id was extracted.
C17_Witness ==
    /\ last.op = "extract_references"
    /\ last.arg.data =
           DDict(<<Entry("entity_id",
                         DDict(<<Entry("entity_id", DStr(U1))>>))>>)
    /\ last.ret.entity_registry_ids = {U1}

\* The cache of a registry.
Cache(reg) ==
    IF reg = "entity" THEN _entities
    ELSE IF reg = "device" THEN _devices
    ELSE _areas

\* The last call accessed the registry reg and its load failed on a snapshot
\* in the given state: the cache is still None after the call.
FailedLoad(reg, state) ==
    /\ ~last.got[reg].is_none
    /\ Cache(reg).is_none
    /\ storage[reg].state = state

\* The message m is one of the messages of seq.
Holds(seq, m) == \E i \in 1..Len(seq) : seq[i] = m

\* The kinds of the messages about the area registry.
AreaRegistryKinds == {"AreaRegistryNotFound", "AreaRegistryLoadFailed"}

\* C18: a call that accesses a registry whose snapshot is missing gets the
\* empty map; it appends "... registry not found" to errors for the entity and
\* the device registry, and to warnings, never to errors, for the area
\* registry.  A file inspected with an empty entity registry gets one "Unknown
\* entity" error for each plain entity reference and one "Unknown entity
\* registry ID" error for each registry id.
C18_MissingRegistryIsEmpty ==
    /\ FailedLoad("entity", "missing")
          => /\ last.got.entity.dict = <<>>
             /\ Holds(ErrorsAdded, RunMsg("EntityRegistryNotFound"))
    /\ FailedLoad("device", "missing")
          => /\ last.got.device.dict = <<>>
             /\ Holds(ErrorsAdded, RunMsg("DeviceRegistryNotFound"))
    /\ FailedLoad("area", "missing")
          => /\ last.got.area.dict = <<>>
             /\ Holds(WarningsAdded, RunMsg("AreaRegistryNotFound"))
    /\ \A i \in 1..Len(errors) : errors[i].kind \notin AreaRegistryKinds
    /\ (Inspected /\ last.got.entity.dict = <<>>)
          => /\ \A id \in extract_entity_references(last.arg.data) :
                   About(ErrorsAdded, "UnknownEntity", id)
                       = <<Msg("UnknownEntity", last.arg.name, id, <<>>)>>
             /\ \A id \in extract_entity_registry_ids(last.arg.data) :
                   About(ErrorsAdded, "UnknownRegistryId", id)
                       = <<Msg("UnknownRegistryId", last.arg.name, id, <<>>)>>

\* C18 witness: a file with a plain reference and a registry id that a full
\* registry would resolve was inspected while the three snapshots are missing.
C18_Witness ==
    /\ Inspected
    /\ last.arg.data = DocKnown
    /\ FailedLoad("entity", "missing")
    /\ FailedLoad("device", "missing")
    /\ FailedLoad("area", "missing")
    /\ ~last.ret

\* C19 (as claimed): a call that accesses a registry whose snapshot cannot be
\* parsed gets the empty map and appends "Failed to load ... registry" to
\* errors, for each of the three registries.
C19_MalformedIsError ==
    /\ FailedLoad("entity", "malformed")
          => /\ last.got.entity.dict = <<>>
             /\ Holds(ErrorsAdded, RunMsg("EntityRegistryLoadFailed"))
    /\ FailedLoad("device", "malformed")
          => /\ last.got.device.dict = <<>>
             /\ Holds(ErrorsAdded, RunMsg("DeviceRegistryLoadFailed"))
    /\ FailedLoad("area", "malformed")
          => /\ last.got.area.dict = <<>>
             /\ Holds(ErrorsAdded, RunMsg("AreaRegistryLoadFailed"))

\* C19 (amended): such a call gets the empty map; it appends "Failed to load
\* ... registry" to errors for the entity and the device registry, and to
\* warnings, not to errors, for the area registry.
C19_MalformedDegrades ==
    /\ FailedLoad("entity", "malformed")
          => /\ last.got.entity.dict = <<>>
             /\ Holds(ErrorsAdded, RunMsg("EntityRegistryLoadFailed"))
    /\ FailedLoad("device", "malformed")
          => /\ last.got.device.dict = <<>>
             /\ Holds(ErrorsAdded, RunMsg("DeviceRegistryLoadFailed"))
    /\ FailedLoad("area", "malformed")
          => /\ last.got.area.dict = <<>>
             /\ Holds(WarningsAdded, RunMsg("AreaRegistryLoadFailed"))
             /\ ~Holds(ErrorsAdded, RunMsg("AreaRegistryLoadFailed"))

\* C19 witness: a file was inspected while the three snapshots cannot be
\* parsed.
C19_Witness ==
    /\ Inspected
    /\ FailedLoad("entity", "malformed")
    /\ FailedLoad("device", "malformed")
    /\ FailedLoad("area", "malformed")

\* a is a prefix of b.
IsPrefix(a, b) == Len(a) <= Len(b) /\ SubSeq(b, 1, Len(a)) = a

\* C20: at every step errors and warnings are prefixes of what they become.
C20_ListsOnlyGrow ==
    [][IsPrefix(errors, errors') /\ IsPrefix(warnings, warnings')]_vars

\* C20 witness: print_results ran at the end of a run that recorded two
\* errors or more and a warning.
C20_Witness ==
    /\ pc = "exit"
    /\ Len(errors) >= 2
    /\ Len(warnings) >= 1

\* C21 (as claimed): every identifier extract_entities_from_template returns
\* has exactly one "." with a character before it and a character after it.
C21_TwoNonEmptySegments ==
    last.op = "extract_entities_from_template" =>
        \A m \in last.ret :
            /\ CountChar(m, ".") = 1
            /\ m[1] # "."
            /\ m[Len(m)] # "."

\* The string v holds one of the three template call markers.
HoldsMarker(v) ==
    \E marker \in {StatesCall, StateAttrCall, IsStateCall} : Contains(v, marker)

\* The keys under which references are listed.
ReferenceKeys == EntityKeys \cup DeviceKeys \cup AreaKeys

\* C26 (as claimed): for every entry, of a mapping anywhere in the document,
\* whose value is a string holding a marker, whatever its key, the identifiers
\* the template scanner accepts from the string are in the set
\* extract_entity_references returns.
C26_TemplatesUnderAnyKey ==
    last.op = "extract_references" =>
        \A n \in {m \in Nodes(last.arg.data) : m.t = "dict"} :
            \A e \in Range(n.entries) :
                (e.value.t = "str" /\ HoldsMarker(e.value.s))
                    => extract_entities_from_template(e.value.s)
                           \subseteq last.ret.entity_refs

\* The document data and the documents nested in it that are not inside the
\* value of a reference key.
RECURSIVE Walked(_)
Walked(data) ==
    {data} \cup
        IF data.t = "dict"
        THEN UNION {Walked(e.value) : e \in {f \in Range(data.entries) :
                                                f.key \notin ReferenceKeys}}
        ELSE IF data.t = "list"
        THEN UNION {Walked(item) : item \in Range(data.items)}
        ELSE {}

\* C26 (amended): the same for the entries whose key is no reference key
\* (entity_id, entity_ids, entities, device_id, device_ids, area_id, area_ids)
\* in the mappings that are not inside the value of a reference key.
C26_TemplatesUnderOtherKeys ==
    last.op = "extract_references" =>
        \A n \in {m \in Walked(last.arg.data) : m.t = "dict"} :
            \A e \in Range(n.entries) :
                (/\ e.key \notin ReferenceKeys
                 /\ e.value.t = "str"
                 /\ HoldsMarker(e.value.s))
                    => extract_entities_from_template(e.value.s)
                           \subseteq last.ret.entity_refs

\* C26 witness: a template stored under the key "data" of a mapping nested in
\* another was scanned and its entity extracted.
C26_Witness ==
    /\ last.op = "extract_references"
    /\ last.arg.data =
           DDict(<<Entry("x", DDict(<<Entry("data", DStr(TmplSA))>>))>>)
    /\ last.ret.entity_refs = {SA}

\* The message m is about the file named name, or records a failed load of a
\* registry.
OfFile(m, name) ==
    \/ m.file = name
    \/ m.kind \in LoadFailureKinds \cup AreaRegistryKinds

\* C25: each turn of the loop of validate_all validates one file, so that the
\* count of files left drops by one and reaches zero before validate_all
\* returns; the messages of the turn are those of that file and are put after
\* every message appended before the turn.
C25_FilesInOrder ==
    /\ [][(pc = "running" /\ last'.op = "validate_file_references")
            => /\ remaining > 0
               /\ remaining' = remaining - 1
               /\ last'.errs0 = Len(errors)
               /\ last'.warns0 = Len(warnings)
               /\ SubSeq(errors', 1, Len(errors)) = errors
               /\ SubSeq(warnings', 1, Len(warnings)) = warnings
               /\ \A i \in (Len(errors) + 1)..Len(errors') :
                      OfFile(errors'[i], last'.arg.name)
               /\ \A i \in (Len(warnings) + 1)..Len(warnings') :
                      OfFile(warnings'[i], last'.arg.name)]_vars
    /\ [][(pc = "idle" /\ pc' = "running")
            => remaining' = last'.arg.n /\ errors' = errors
                   /\ warnings' = warnings]_vars
    /\ [][(pc = "running" /\ pc' = "done") => remaining = 0]_vars

\* C25 witness: the second file of a run was validated and appended an error
\* and a warning after the error of the first file.
C25_Witness ==
    /\ pc = "running"
    /\ remaining = 0
    /\ Inspected
    /\ last.errs0 >= 1
    /\ last.warns0 = 0
    /\ Len(errors) > last.errs0
    /\ Len(warnings) > 0
    /\ errors[1].kind = "UnknownEntity"

\* The number of messages of kind kind in errors and warnings.
Recorded(kind) ==
    Len(SelectSeq(errors \o warnings, LAMBDA m : m.kind = kind))

\* C27 (as claimed): no failure to load a registry is recorded more than once
\* in errors and warnings.
C27_LoadFailureRecordedOnce ==
    \A kind \in LoadFailureKinds \cup AreaRegistryKinds : Recorded(kind) <= 1

-----------------------------------------------------------------------------
(* One call of validate_file_references on documents that give registry    *)
(* ids in lists and under the keys entity_ids and entities.                *)

\* The entries of these documents: a registry id of the index (U1) and one
\* that is in no registry (U3), as the string of entity_id, in a list under
\* each entity key, and as the string of entity_ids and entities.
ListEntries ==
    <<Entry("entity_id", DStr(U3)),
      Entry("entity_id", DList(<<DStr(U3), DStr(SA)>>)),
      Entry("entity_ids", DList(<<DStr(U1), DStr(U3)>>)),
      Entry("entities", DList(<<DStr(U3)>>)),
      Entry("entity_ids", DStr(U3)),
      Entry("entities", DStr(U1)),
      Entry("entities", DStr(U3)),
      Entry("entity_id", DStr(SX))>>

ListChoices(n) ==
    {c \in SeqsUpTo(1..Len(ListEntries), n) :
        \A i \in 1..(Len(c) - 1) : c[i] <= c[i + 1]}

ListDocs ==
    {DDict(<<Entry("actions",
                   DList([i \in 1..Len(c) |-> DDict(<<ListEntries[c[i]]>>)]))>>)
        : c \in ListChoices(MaxRefs)}

ValidateListFile ==
    /\ pc = "idle"
    /\ calls = 0
    /\ \E data \in ListDocs :
          LET file == File("a.yaml", TRUE, data)
          IN  \E o \in RefOrders(file) :
                LET r == validate_file_references(Self, storage, file,
                                                  o[1], o[2], o[3], o[4])
                IN  /\ SetSelf(r.self)
                    /\ last' = Call("validate_file_references", file, r.ret,
                                    r.got)
                    /\ Remember(r.got)
    /\ calls' = 1
    /\ UNCHANGED <<storage, pc, remaining, all_valid, changes>>

NextLists == ValidateListFile

SpecLists == InitFile /\ [][NextLists]_vars

\* The string id is an element of a list under an entity key of data, or the
\* string of a key entity_ids or entities.
Listed(data, id) ==
    \E n \in {m \in Nodes(data) : m.t = "dict"} : \E e \in Range(n.entries) :
        \/ /\ e.key \in {"entity_id", "entity_ids", "entities"}
           /\ e.value.t = "list"
           /\ DStr(id) \in Range(e.value.items)
        \/ /\ e.key \in {"entity_ids", "entities"}
           /\ e.value = DStr(id)

\* The string id is the string of a key entity_id of data.
UnderEntityId(data, id) ==
    \E n \in {m \in Nodes(data) : m.t = "dict"} :
        Entry("entity_id", DStr(id)) \in Range(n.entries)

\* C29: a string of 32 lowercase hex characters that the file gives only in a
\* list under entity_id, entity_ids or entities, or as the string of
\* entity_ids or entities, is in neither the plain entity set nor the
\* registry id set of the file, and validate_file_references appends no error
\* and no warning about it, whether the registry id index has it or not.
C29_ListedRegistryIdsIgnored ==
    Inspected =>
        \A id \in {U1, U2, U3} :
            (Listed(last.arg.data, id) /\ ~UnderEntityId(last.arg.data, id))
                => /\ id \notin extract_entity_references(last.arg.data)
                   /\ id \notin extract_entity_registry_ids(last.arg.data)
                   /\ \A m \in Range(ErrorsAdded) \cup Range(WarningsAdded) :
                          m.id # id /\ m.entity # id

\* C29 witness: a file listing under entity_ids and entities a registry id
\* that the loaded index does not have was found valid without a message.
C29_Witness ==
    /\ Inspected
    /\ last.arg.data =
           DDict(<<Entry("actions",
               DList(<<DDict(<<Entry("entity_ids",
                                     DList(<<DStr(U1), DStr(U3)>>))>>),
                       DDict(<<Entry("entities", DStr(U3))>>)>>))>>)
    /\ IndexKeys(last.got.entity.dict) = {U1, U2}
    /\ last.ret = TRUE
    /\ ErrorsAdded = <<>>
    /\ WarningsAdded = <<>>

-----------------------------------------------------------------------------
(* One call of get_entity_summary on a fresh validator.                     *)

\* The most records in the entity registry snapshot.
MaxRecords == 4

\* entity_id.split(".")[0]
RECURSIVE Domain(_)
Domain(entity_id) ==
    IF entity_id = <<>> \/ entity_id[1] = "." THEN <<>>
    ELSE <<entity_id[1]>> \o Domain(Tail(entity_id))

\* The value a domain gets at line 441.
NewDomain == [count |-> 0, enabled |-> 0, disabled |-> 0, examples |-> <<>>]

\* The turn of the loop without the limit on the examples.
Tally_uncapped(summary, entity_id, entity_data) ==
    LET domain == Domain(entity_id)
        old == IF DictHas(summary, domain) THEN DictGet(summary, domain)
               ELSE NewDomain
        isEnabled == entity_data.disabled_by = "None"
    IN  DictPut(summary, domain,
            [count |-> old.count + 1,
             enabled |-> old.enabled + (IF isEnabled THEN 1 ELSE 0),
             disabled |-> old.disabled + (IF isEnabled THEN 0 ELSE 1),
             examples |-> Append(old.examples, entity_id)])

\* One turn of the loop of lines 438-456, on the item entity_id: entity_data.
Tally(summary, entity_id, entity_data) ==
    LET domain == Domain(entity_id)
        old == IF DictHas(summary, domain) THEN DictGet(summary, domain)
               ELSE NewDomain
        isEnabled == entity_data.disabled_by = "None"
    IN  DictPut(summary, domain,
            [count |-> old.count + 1,
             enabled |-> old.enabled + (IF isEnabled THEN 1 ELSE 0),
             disabled |-> old.disabled + (IF isEnabled THEN 0 ELSE 1),
             examples |-> IF Len(old.examples) < 3
                          THEN Append(old.examples, entity_id)
                          ELSE old.examples])

\* summary after the first k items of entities.
RECURSIVE SummaryOf(_, _)
SummaryOf(entities, k) ==
    IF k = 0 THEN <<>>
    ELSE Tally(SummaryOf(entities, k - 1), entities[k].key, entities[k].value)

\* get_entity_summary, lines 433-458.
get_entity_summary(self, st) ==
    LET r == load_entity_registry(self, st)
    IN  [self |-> r.self, ret |-> SummaryOf(r.ret, Len(r.ret)),
         got |-> Got(Some(r.ret), None, None)]

\* The records of a snapshot: three domains ("s" with four entities, "l",
\* and an id without a dot), enabled and disabled, and two records for s.a.
SummaryRecords ==
    {EA, ED, EC, EN,
     EntityRecord(<<"s", ".", "b">>, TRUE, U3, "None"),
     EntityRecord(<<"l", ".", "a">>, TRUE, U3, "integration"),
     EntityRecord(<<"n">>, TRUE, U3, "None")}

SummaryStorages ==
    [entity : {Missing, Malformed}
                  \cup {Snapshot(recs) :
                           recs \in SeqsUpTo(SummaryRecords, MaxRecords)},
     device : {Missing}, area : {Missing}]

InitSummary == Fresh /\ storage \in SummaryStorages

GetEntitySummary ==
    /\ pc = "idle"
    /\ calls = 0
    /\ LET r == get_entity_summary(Self, storage)
       IN  /\ SetSelf(r.self)
           /\ last' = Call("get_entity_summary", NoFile, r.ret, r.got)
           /\ Remember(r.got)
    /\ calls' = 1
    /\ UNCHANGED <<storage, pc, remaining, all_valid, changes>>

NextSummary == GetEntitySummary

SpecSummary == InitSummary /\ [][NextSummary]_vars

\* The entity id is of the domain: it is the domain followed by a ".", or the
\* domain itself when it has no ".".
InDomain(entity_id, domain) ==
    \/ IsPrefix(domain \o <<".">>, entity_id)
    \/ entity_id = domain /\ CountChar(entity_id, ".") = 0

RECURSIVE SumCounts(_)
SumCounts(summary) ==
    IF summary = <<>> THEN 0
    ELSE summary[1].value.count + SumCounts(Tail(summary))

\* C30: in the result of get_entity_summary every domain has count = enabled
\* + disabled and count >= 1, its examples are min(count, 3) different entity
\* ids of the loaded registry that are of the domain, and the counts of all
\* domains add up to the number of entries of the loaded registry.
C30_SummaryCounts ==
    last.op = "get_entity_summary" =>
        LET summary == last.ret
            entities == last.got.entity.dict
        IN  /\ \A i \in 1..Len(summary) :
                  LET domain == summary[i].key
                      d == summary[i].value
                  IN  /\ d.count = d.enabled + d.disabled
                      /\ d.count >= 1
                      /\ Len(d.examples) = IF d.count < 3 THEN d.count ELSE 3
                      /\ \A j, k \in 1..Len(d.examples) :
                             j # k => d.examples[j] # d.examples[k]
                      /\ \A j \in 1..Len(d.examples) :
                             /\ InDomain(d.examples[j], domain)
                             /\ DictHas(entities, d.examples[j])
                      /\ \A j \in 1..Len(summary) :
                             j # i => summary[j].key # domain
            /\ SumCounts(summary) = Len(entities)

\* C30 witness: the summary of a registry of four entities of one domain, one
\* of them disabled.
C30_Witness ==
    /\ last.op = "get_entity_summary"
    /\ Len(last.ret) = 1
    /\ last.ret[1].key = <<"s">>
    /\ last.ret[1].value.count = 4
    /\ last.ret[1].value.disabled = 1
    /\ Len(last.ret[1].value.examples) = 3

-----------------------------------------------------------------------------
(* YAMLValidator (yaml_validator.py) and the two file checks of             *)
(* HAConfigValidator (ha_config_validator.py).  In this part errors and     *)
(* warnings are the lists of the one validator instance of the behaviour,   *)
(* and the registry fields stay unused.                                     *)

\* The most items in an automations list, scripts in a scripts mapping.
MaxItems == 2

\* A file of the configuration directory: whether it decodes as UTF-8,
\* whether yaml.load parses it, and the document it parses to.
YamlFile(name, utf8, parses, data) ==
    [data |-> data, name |-> name, utf8 |-> utf8, parses |-> parses]

NoYamlFile == YamlFile("", FALSE, FALSE, DNone)

\* key in mapping
HasKey(mapping, key) == \E e \in Range(mapping.entries) : e.key = key

DecimalDigits == <<"0", "1", "2", "3", "4", "5", "6", "7", "8", "9">>
\* f"{i}", for an index of one digit
FormatIndex(i) == <<DecimalDigits[i + 1]>>

YSelf == [errors |-> errors, warnings |-> warnings]

SetYSelf(self) ==
    /\ errors' = self.errors
    /\ warnings' = self.warnings
    /\ UNCHANGED <<_entities, _devices, _areas>>

\* validate_file_encoding, lines 91-99.
validate_file_encoding(self, file) ==
    IF file.utf8 THEN [self |-> self, ret |-> TRUE]
    ELSE [self |-> AddError(self, Msg("NotUtf8", file.name, <<>>, <<>>)),
          ret |-> FALSE]

\* validate_yaml_syntax, lines 75-89.
validate_yaml_syntax(self, file) ==
    IF ~file.utf8
    THEN [self |-> AddError(self, Msg("EncodingError", file.name, <<>>, <<>>)),
          ret |-> FALSE]
    ELSE IF ~file.parses
    THEN [self |-> AddError(self, Msg("YamlSyntaxError", file.name, <<>>,
                                      <<>>)),
          ret |-> FALSE]
    ELSE [self |-> self, ret |-> TRUE]

\* The deprecated keys present, in the order of line 119.
DeprecatedIn(config) ==
    SelectSeq(<<"discovery", "introduction">>, LAMBDA key : HasKey(config, key))

RECURSIVE AddWarnings(_, _)
AddWarnings(self, ms) ==
    IF ms = <<>> THEN self
    ELSE AddWarnings(AddWarning(self, Head(ms)), Tail(ms))

\* validate_configuration_structure, lines 101-127.
validate_configuration_structure(self, file) ==
    IF file.name # "configuration.yaml" THEN [self |-> self, ret |-> TRUE]
    ELSE IF ~(file.utf8 /\ file.parses)
    THEN [self |-> AddError(self, Msg("ConfigurationFailed", file.name, <<>>,
                                      <<>>)),
          ret |-> FALSE]
    ELSE IF file.data.t # "dict"
    THEN [self |-> AddError(self, Msg("ConfigurationNotDict", file.name, <<>>,
                                      <<>>)),
          ret |-> FALSE]
    ELSE LET s1 == IF ~HasKey(file.data, "homeassistant")
                   THEN AddWarning(self, Msg("MissingHomeassistant",
                                             file.name, <<>>, <<>>))
                   ELSE self
             dep == DeprecatedIn(file.data)
         IN  [self |-> AddWarnings(s1,
                           [i \in 1..Len(dep) |->
                               Msg("Deprecated", file.name, dep[i], <<>>)]),
              ret |-> TRUE]

\* The turn of the loop that asks every automation for a trigger and an
\* action, blueprint or not.
AutomationItem_strict(self, file, k) ==
    LET automation == file.data.items[k]
        i == FormatIndex(k - 1)
    IN  IF automation.t # "dict"
        THEN [self |-> AddError(self, Msg("AutomationNotDict", file.name, i,
                                          <<>>)),
              ret |-> FALSE]
        ELSE LET noTrigger == /\ ~HasKey(automation, "trigger")
                              /\ ~HasKey(automation, "triggers")
                 noAction == /\ ~HasKey(automation, "action")
                             /\ ~HasKey(automation, "actions")
                 s1 == IF noTrigger
                       THEN AddError(self, Msg("AutomationMissingTrigger",
                                               file.name, i, <<>>))
                       ELSE self
                 s2 == IF noAction
                       THEN AddError(s1, Msg("AutomationMissingAction",
                                             file.name, i, <<>>))
                       ELSE s1
                 s3 == IF ~HasKey(automation, "alias")
                       THEN AddWarning(s2, Msg("AutomationMissingAlias",
                                               file.name, i, <<>>))
                       ELSE s2
             IN  [self |-> s3, ret |-> ~noTrigger /\ ~noAction]

\* One turn of the loop of lines 146-169, on the k-th automation of the file.
AutomationItem(self, file, k) ==
    LET automation == file.data.items[k]
        i == FormatIndex(k - 1)
    IN  IF automation.t # "dict"
        THEN [self |-> AddError(self, Msg("AutomationNotDict", file.name, i,
                                          <<>>)),
              ret |-> FALSE]
        ELSE LET blueprint == HasKey(automation, "use_blueprint")
                 noTrigger == /\ ~blueprint
                              /\ ~HasKey(automation, "trigger")
                              /\ ~HasKey(automation, "triggers")
                 noAction == /\ ~blueprint
                             /\ ~HasKey(automation, "action")
                             /\ ~HasKey(automation, "actions")
                 s1 == IF noTrigger
                       THEN AddError(self, Msg("AutomationMissingTrigger",
                                               file.name, i, <<>>))
                       ELSE self
                 s2 == IF noAction
                       THEN AddError(s1, Msg("AutomationMissingAction",
                                             file.name, i, <<>>))
                       ELSE s1
                 s3 == IF ~HasKey(automation, "alias")
                       THEN AddWarning(s2, Msg("AutomationMissingAlias",
                                               file.name, i, <<>>))
                       ELSE s2
             IN  [self |-> s3, ret |-> ~noTrigger /\ ~noAction]

\* The first k turns of the loop.
RECURSIVE AutomationsLoop(_, _, _)
AutomationsLoop(self, file, k) ==
    IF k = 0 THEN [self |-> self, ret |-> TRUE]
    ELSE LET r == AutomationsLoop(self, file, k - 1)
             t == AutomationItem(r.self, file, k)
         IN  [self |-> t.self, ret |-> r.ret /\ t.ret]

\* validate_automations_structure, lines 129-175.
validate_automations_structure(self, file) ==
    IF file.name # "automations.yaml" THEN [self |-> self, ret |-> TRUE]
    ELSE IF ~(file.utf8 /\ file.parses)
    THEN [self |-> AddError(self, Msg("AutomationsFailed", file.name, <<>>,
                                      <<>>)),
          ret |-> FALSE]
    ELSE IF file.data.t = "none" THEN [self |-> self, ret |-> TRUE]
    ELSE IF file.data.t # "list"
    THEN [self |-> AddError(self, Msg("AutomationsNotList", file.name, <<>>,
                                      <<>>)),
          ret |-> FALSE]
    ELSE AutomationsLoop(self, file, Len(file.data.items))

\* The turn of the loop that asks every script for a sequence.
ScriptItem_strict(self, file, k) ==
    LET script_name == file.data.entries[k].key
        script_config == file.data.entries[k].value
    IN  IF script_config.t # "dict"
        THEN [self |-> AddError(self, Msg("ScriptNotDict", file.name,
                                          script_name, <<>>)),
              ret |-> FALSE]
        ELSE IF ~HasKey(script_config, "sequence")
        THEN [self |-> AddError(self, Msg("ScriptMissingSequence", file.name,
                                          script_name, <<>>)),
              ret |-> FALSE]
        ELSE [self |-> self, ret |-> TRUE]

\* One turn of the loop of lines 195-209, on the k-th script of the file.
ScriptItem(self, file, k) ==
    LET script_name == file.data.entries[k].key
        script_config == file.data.entries[k].value
    IN  IF script_config.t # "dict"
        THEN [self |-> AddError(self, Msg("ScriptNotDict", file.name,
                                          script_name, <<>>)),
              ret |-> FALSE]
        ELSE IF /\ ~HasKey(script_config, "use_blueprint")
                /\ ~HasKey(script_config, "sequence")
        THEN [self |-> AddError(self, Msg("ScriptMissingSequence", file.name,
                                          script_name, <<>>)),
              ret |-> FALSE]
        ELSE [self |-> self, ret |-> TRUE]

RECURSIVE ScriptsLoop(_, _, _)
ScriptsLoop(self, file, k) ==
    IF k = 0 THEN [self |-> self, ret |-> TRUE]
    ELSE LET r == ScriptsLoop(self, file, k - 1)
             t == ScriptItem(r.self, file, k)
         IN  [self |-> t.self, ret |-> r.ret /\ t.ret]

\* validate_scripts_structure, lines 177-215.
validate_scripts_structure(self, file) ==
    IF file.name # "scripts.yaml" THEN [self |-> self, ret |-> TRUE]
    ELSE IF ~(file.utf8 /\ file.parses)
    THEN [self |-> AddError(self, Msg("ScriptsFailed", file.name, <<>>, <<>>)),
          ret |-> FALSE]
    ELSE IF file.data.t = "none" THEN [self |-> self, ret |-> TRUE]
    ELSE IF file.data.t # "dict"
    THEN [self |-> AddError(self, Msg("ScriptsNotDict", file.name, <<>>,
                                      <<>>)),
          ret |-> FALSE]
    ELSE ScriptsLoop(self, file, Len(file.data.entries))

\* One turn of the loop of YAMLValidator.validate_all, lines 240-255: the
\* validator after it, and whether the turn kept all_valid.
yaml_validate_file(self, file) ==
    IF file.name = "secrets.yaml" THEN [self |-> self, ret |-> TRUE]
    ELSE LET enc == validate_file_encoding(self, file)
         IN  IF ~enc.ret THEN [self |-> enc.self, ret |-> FALSE]
             ELSE LET syn == validate_yaml_syntax(enc.self, file)
                  IN  IF ~syn.ret THEN [self |-> syn.self, ret |-> FALSE]
                      ELSE LET c == validate_configuration_structure(syn.self,
                                                                     file)
                               a == validate_automations_structure(c.self,
                                                                   file)
                               sc == validate_scripts_structure(a.self, file)
                           IN  [self |-> sc.self, ret |-> TRUE]

\* HAConfigValidator.validate_automations_file, lines 303-330; present tells
\* whether automations.yaml exists.
RECURSIVE ha_automations_loop(_, _, _)
ha_automations_loop(self, file, k) ==
    IF k = 0 THEN self
    ELSE LET s0 == ha_automations_loop(self, file, k - 1)
             automation == file.data.items[k]
             i == FormatIndex(k - 1)
         IN  IF automation.t # "dict"
             THEN AddError(s0, Msg("HaAutomationNotDict", "", i, <<>>))
             ELSE LET s1 == IF ~HasKey(automation, "trigger")
                            THEN AddError(s0, Msg("HaAutomationMissingTrigger",
                                                  "", i, <<>>))
                            ELSE s0
                  IN  IF ~HasKey(automation, "action")
                      THEN AddError(s1, Msg("HaAutomationMissingAction", "",
                                            i, <<>>))
                      ELSE s1

ha_validate_automations_file(self, present, file) ==
    IF ~present THEN self
    ELSE IF ~file.utf8
    THEN AddError(self, RunMsg("HaAutomationsReadError"))
    ELSE IF ~file.parses
    THEN AddError(self, RunMsg("HaAutomationsSyntaxError"))
    ELSE IF file.data.t = "none" THEN self
    ELSE IF file.data.t # "list"
    THEN AddError(self, RunMsg("HaAutomationsNotList"))
    ELSE ha_automations_loop(self, file, Len(file.data.items))

\* HAConfigValidator.validate_scripts_file, lines 332-361.
RECURSIVE ha_scripts_loop(_, _, _)
ha_scripts_loop(self, file, k) ==
    IF k = 0 THEN self
    ELSE LET s0 == ha_scripts_loop(self, file, k - 1)
             script_name == file.data.entries[k].key
             script_config == file.data.entries[k].value
         IN  IF script_config.t # "dict"
             THEN AddError(s0, Msg("HaScriptNotDict", "", script_name, <<>>))
             ELSE IF ~HasKey(script_config, "sequence")
             THEN AddError(s0, Msg("HaScriptMissingSequence", "", script_name,
                                   <<>>))
             ELSE s0

ha_validate_scripts_file(self, present, file) ==
    IF ~present THEN self
    ELSE IF ~file.utf8
    THEN AddError(self, RunMsg("HaScriptsReadError"))
    ELSE IF ~file.parses
    THEN AddError(self, RunMsg("HaScriptsSyntaxError"))
    ELSE IF file.data.t = "none" THEN self
    ELSE IF file.data.t # "dict"
    THEN AddError(self, RunMsg("HaScriptsNotDict"))
    ELSE ha_scripts_loop(self, file, Len(file.data.entries))

\* The mapping with the keys of ks, in the order of keys.
DictOf(keys, ks) ==
    LET sel == SelectSeq(keys, LAMBDA k : k \in ks)
    IN  DDict([i \in 1..Len(sel) |-> Entry(sel[i], DInt)])

AutomationKeys ==
    <<"alias", "use_blueprint", "trigger", "triggers", "action", "actions">>

\* The items of an automations list: every choice of the five keys the check
\* reads, two automations with an alias, and an item that is no mapping.
AutomationItems ==
    {DictOf(AutomationKeys, ks) : ks \in SUBSET (Range(AutomationKeys)
                                                     \ {"alias"})}
    \cup {DictOf(AutomationKeys, {"alias", "use_blueprint"}),
          DictOf(AutomationKeys, {"alias", "trigger", "action"}),
          DInt}

\* The files given to the automations checks: automations.yaml holding a
\* list, nothing, or no list, or failing to decode or parse; and another file.
AutomationFiles ==
    {YamlFile("automations.yaml", TRUE, TRUE, DList(items)) :
         items \in SeqsUpTo(AutomationItems, MaxItems)}
    \cup {YamlFile("automations.yaml", TRUE, TRUE, d) :
              d \in {DNone, DInt, DDict(<<>>)}}
    \cup {YamlFile("automations.yaml", FALSE, TRUE, DNone),
          YamlFile("automations.yaml", TRUE, FALSE, DNone),
          YamlFile("other.yaml", TRUE, TRUE, DInt)}

ScriptKeys == <<"alias", "use_blueprint", "sequence">>

ScriptConfigs ==
    {DictOf(ScriptKeys, ks) : ks \in SUBSET Range(ScriptKeys)} \cup {DInt}

\* The name of the k-th script.
ScriptName(k) == Rep("s", k)

ScriptFiles ==
    {YamlFile("scripts.yaml", TRUE, TRUE,
              DDict([k \in 1..Len(configs) |->
                        Entry(ScriptName(k), configs[k])])) :
         configs \in SeqsUpTo(ScriptConfigs, MaxItems)}
    \cup {YamlFile("scripts.yaml", TRUE, TRUE, d) :
              d \in {DNone, DInt, DList(<<>>)}}
    \cup {YamlFile("scripts.yaml", FALSE, TRUE, DNone),
          YamlFile("scripts.yaml", TRUE, FALSE, DNone),
          YamlFile("other.yaml", TRUE, TRUE, DInt)}

ConfigurationKeys == <<"homeassistant", "discovery", "introduction">>

ConfigurationFiles ==
    {YamlFile("configuration.yaml", TRUE, TRUE,
              DictOf(ConfigurationKeys, ks)) :
         ks \in SUBSET Range(ConfigurationKeys)}
    \cup {YamlFile("configuration.yaml", TRUE, TRUE, d) : d \in {DNone, DInt}}
    \cup {YamlFile("configuration.yaml", FALSE, TRUE, DNone),
          YamlFile("configuration.yaml", TRUE, FALSE, DNone),
          YamlFile("other.yaml", TRUE, TRUE, DInt)}

\* The files of a run of YAMLValidator.validate_all.
YamlRunFiles ==
    {YamlFile("automations.yaml", TRUE, TRUE, d) :
         d \in {DNone, DInt,
                DList(<<DictOf(AutomationKeys, {"alias", "use_blueprint"})>>),
                DList(<<DictOf(AutomationKeys, {"alias", "trigger"})>>)}}
    \cup {YamlFile("scripts.yaml", TRUE, TRUE, d) :
              d \in {DDict(<<Entry(ScriptName(1),
                                   DictOf(ScriptKeys, {"sequence"}))>>),
                     DDict(<<Entry(ScriptName(1),
                                   DictOf(ScriptKeys, {"alias"}))>>)}}
    \cup {YamlFile("configuration.yaml", TRUE, TRUE, d) :
              d \in {DictOf(ConfigurationKeys, {"homeassistant"}), DInt}}
    \cup {YamlFile("automations.yaml", FALSE, TRUE, DNone),
          YamlFile("scripts.yaml", TRUE, FALSE, DNone),
          YamlFile("secrets.yaml", TRUE, FALSE, DNone),
          YamlFile("other.yaml", TRUE, TRUE, DInt)}

\* YAMLValidator(config_dir), lines 69-73, and HAConfigValidator(config_dir).
InitYaml ==
    /\ Fresh
    /\ storage = [entity |-> Missing, device |-> Missing, area |-> Missing]

\* A direct call on the file of one of the checks, r its result.
YamlDirect(op, file, r) ==
    /\ pc = "idle"
    /\ calls = 0
    /\ SetYSelf(r.self)
    /\ last' = Call(op, file, r.ret, NoGot)
    /\ calls' = 1
    /\ UNCHANGED <<storage, pc, remaining, all_valid, changes, accessed>>

ValidateConfigurationStructure ==
    \E file \in ConfigurationFiles :
        YamlDirect("validate_configuration_structure", file,
                   validate_configuration_structure(YSelf, file))

ValidateAutomationsStructure ==
    \E file \in AutomationFiles :
        YamlDirect("validate_automations_structure", file,
                   validate_automations_structure(YSelf, file))

ValidateScriptsStructure ==
    \E file \in ScriptFiles :
        YamlDirect("validate_scripts_structure", file,
                   validate_scripts_structure(YSelf, file))

\* HAConfigValidator.validate_automations_file on a directory that has
\* automations.yaml or does not.
HaValidateAutomationsFile ==
    \E present \in BOOLEAN :
        \E file \in {f \in AutomationFiles : f.name = "automations.yaml"} :
            YamlDirect("ha_validate_automations_file",
                       IF present THEN file ELSE NoYamlFile,
                       [self |-> ha_validate_automations_file(YSelf, present,
                                                              file),
                        ret |-> TRUE])

HaValidateScriptsFile ==
    \E present \in BOOLEAN :
        \E file \in {f \in ScriptFiles : f.name = "scripts.yaml"} :
            YamlDirect("ha_validate_scripts_file",
                       IF present THEN file ELSE NoYamlFile,
                       [self |-> ha_validate_scripts_file(YSelf, present,
                                                          file),
                        ret |-> TRUE])

\* YAMLValidator.validate_all up to its loop, lines 228-238.
yaml_validate_all_start(dir) ==
    IF ~dir.exists
    THEN /\ SetYSelf(AddError(YSelf, RunMsg("ConfigDirMissing")))
         /\ pc' = "done"
         /\ all_valid' = FALSE
         /\ remaining' = 0
         /\ last' = Call("yaml_validate_all", dir, FALSE, NoGot)
    ELSE IF dir.n = 0
    THEN /\ SetYSelf(AddWarning(YSelf, RunMsg("NoYamlFiles")))
         /\ pc' = "done"
         /\ all_valid' = TRUE
         /\ remaining' = 0
         /\ last' = Call("yaml_validate_all", dir, TRUE, NoGot)
    ELSE /\ SetYSelf(YSelf)
         /\ pc' = "running"
         /\ all_valid' = TRUE
         /\ remaining' = dir.n
         /\ last' = Call("yaml_validate_all_start", dir, TRUE, NoGot)

\* main() calls validate_all on the validator it has just made.
YamlValidateAllStart ==
    /\ pc = "idle"
    /\ calls = 0
    /\ \E exists \in BOOLEAN : \E n \in 0..MaxFiles :
          yaml_validate_all_start(Dir(exists, n))
    /\ UNCHANGED <<storage, calls, changes, accessed>>

YamlValidateAllFile ==
    /\ pc = "running"
    /\ remaining > 0
    /\ \E file \in YamlRunFiles :
          LET r == yaml_validate_file(YSelf, file)
          IN  /\ SetYSelf(r.self)
              /\ all_valid' = (all_valid /\ r.ret)
              /\ last' = Call("yaml_validate_file", file, r.ret, NoGot)
    /\ remaining' = remaining - 1
    /\ UNCHANGED <<storage, pc, calls, changes, accessed>>

\* return all_valid, line 257.
YamlValidateAllReturn ==
    /\ pc = "running"
    /\ remaining = 0
    /\ pc' = "done"
    /\ last' = Call("yaml_validate_all", Dir(TRUE, 0), all_valid, NoGot)
    /\ UNCHANGED <<errors, warnings, _entities, _devices, _areas, storage,
                   remaining, all_valid, calls, changes, accessed>>

NextYaml ==
    \/ ValidateConfigurationStructure
    \/ ValidateAutomationsStructure
    \/ ValidateScriptsStructure
    \/ HaValidateAutomationsFile
    \/ HaValidateScriptsFile
    \/ YamlValidateAllStart
    \/ YamlValidateAllFile
    \/ YamlValidateAllReturn

SpecYaml == InitYaml /\ [][NextYaml]_vars

\* The document was read and parsed.
Parsed(file) == file.utf8 /\ file.parses

\* The automation has what the check asks of it.
CompleteAutomation(item) ==
    /\ item.t = "dict"
    /\ \/ HasKey(item, "use_blueprint")
       \/ /\ HasKey(item, "trigger") \/ HasKey(item, "triggers")
          /\ HasKey(item, "action") \/ HasKey(item, "actions")

\* C22: validate_automations_structure on automations.yaml returns True with
\* no error appended exactly when the document is empty or is a list of
\* mappings that each have use_blueprint, or a trigger (trigger or triggers)
\* and an action (action or actions); an item without use_blueprint that has
\* neither trigger form, or neither action form, makes the result False with
\* an error that names its index and the missing field.
C22_AutomationsStructure ==
    (last.op = "validate_automations_structure"
         /\ last.arg.name = "automations.yaml") =>
        LET data == last.arg.data
        IN  /\ (last.ret = TRUE /\ errors = <<>>)
                <=> /\ Parsed(last.arg)
                    /\ \/ data.t = "none"
                       \/ /\ data.t = "list"
                          /\ \A item \in Range(data.items) :
                                 CompleteAutomation(item)
            /\ last.ret = TRUE <=> errors = <<>>
            /\ (Parsed(last.arg) /\ data.t = "list") =>
                   \A k \in 1..Len(data.items) :
                       LET item == data.items[k]
                           lacks(a, b) == /\ item.t = "dict"
                                          /\ ~HasKey(item, "use_blueprint")
                                          /\ ~HasKey(item, a)
                                          /\ ~HasKey(item, b)
                           named(kind) ==
                               Holds(errors, Msg(kind, "automations.yaml",
                                                 FormatIndex(k - 1), <<>>))
                       IN  /\ lacks("trigger", "triggers")
                               => last.ret = FALSE
                                      /\ named("AutomationMissingTrigger")
                           /\ lacks("action", "actions")
                               => last.ret = FALSE
                                      /\ named("AutomationMissingAction")

\* C22 witness: a list of a blueprint automation without trigger and action
\* and an automation with triggers and actions was found valid.
C22_Witness ==
    /\ last.op = "validate_automations_structure"
    /\ last.arg = YamlFile("automations.yaml", TRUE, TRUE,
           DList(<<DictOf(AutomationKeys, {"alias", "use_blueprint"}),
                   DictOf(AutomationKeys, {"triggers", "actions"})>>))
    /\ last.ret = TRUE
    /\ errors = <<>>
    /\ Len(warnings) = 1

\* C23: validate_scripts_structure on scripts.yaml returns True with no error
\* appended exactly when the document is empty or is a mapping whose values
\* are mappings that each have sequence or use_blueprint; a script with
\* neither makes the result False with an error that names the script.
C23_ScriptsStructure ==
    (last.op = "validate_scripts_structure"
         /\ last.arg.name = "scripts.yaml") =>
        LET data == last.arg.data
        IN  /\ (last.ret = TRUE /\ errors = <<>>)
                <=> /\ Parsed(last.arg)
                    /\ \/ data.t = "none"
                       \/ /\ data.t = "dict"
                          /\ \A e \in Range(data.entries) :
                                 /\ e.value.t = "dict"
                                 /\ \/ HasKey(e.value, "sequence")
                                    \/ HasKey(e.value, "use_blueprint")
            /\ last.ret = TRUE <=> errors = <<>>
            /\ (Parsed(last.arg) /\ data.t = "dict") =>
                   \A e \in Range(data.entries) :
                       (/\ e.value.t = "dict"
                        /\ ~HasKey(e.value, "sequence")
                        /\ ~HasKey(e.value, "use_blueprint"))
                           => /\ last.ret = FALSE
                              /\ Holds(errors, Msg("ScriptMissingSequence",
                                                   "scripts.yaml", e.key,
                                                   <<>>))

\* C23 witness: a mapping of a blueprint script without sequence and a script
\* with a sequence was found valid.
C23_Witness ==
    /\ last.op = "validate_scripts_structure"
    /\ last.arg = YamlFile("scripts.yaml", TRUE, TRUE,
           DDict(<<Entry(ScriptName(1),
                         DictOf(ScriptKeys, {"alias", "use_blueprint"})),
                   Entry(ScriptName(2), DictOf(ScriptKeys, {"sequence"}))>>))
    /\ last.ret = TRUE
    /\ errors = <<>>

\* C24 (as claimed): validate_automations_file on a list of automations that
\* all have use_blueprint, and validate_scripts_file on a mapping of scripts
\* that all have use_blueprint, leave errors empty.
C24_BlueprintsPassHaChecks ==
    /\ (last.op = "ha_validate_automations_file" /\ Parsed(last.arg)
            /\ last.arg.data.t = "list"
            /\ \A item \in Range(last.arg.data.items) :
                   item.t = "dict" /\ HasKey(item, "use_blueprint"))
           => errors = <<>>
    /\ (last.op = "ha_validate_scripts_file" /\ Parsed(last.arg)
            /\ last.arg.data.t = "dict"
            /\ \A e \in Range(last.arg.data.entries) :
                   e.value.t = "dict" /\ HasKey(e.value, "use_blueprint"))
           => errors = <<>>

\* C28 (as claimed): validate_all of YAMLValidator returns False whenever the
\* run appended an error.
C28_ErrorsMakeRunFail ==
    (pc = "done" /\ last.op = "yaml_validate_all" /\ Len(errors) > 0)
        => last.ret = FALSE

====
